---- MODULE Spec2Model ----
(***************************************************************************)
(* Import reconciliation of the rental-map repository.                     *)
(*                                                                         *)
(* Modelled code:                                                          *)
(*   - the identifier codec (lib/utils/validation, lib/types ID_PATTERNS), *)
(*   - processImportData / importData of the import service,               *)
(*   - the POST /api/import route handler with its in-memory sessions,     *)
(*   - the Firestore operations the import calls (reads, updateDoc,        *)
(*     batched set).                                                       *)
(*                                                                         *)
(* Strings that the code inspects character by character (ids, product    *)
(* and manufacturer names) are sequences of one-character strings; text    *)
(* the code only tests for emptiness is an opaque string, "" when empty.   *)
(***************************************************************************)
EXTENDS Integers, Sequences, FiniteSets, TLC

(***************************************************************************)
(* Bounds of the model.                                                    *)
(***************************************************************************)
\* most inventory lines of one import payload, all companies together
MaxTotalLines == 2
\* most companies of one import payload
MaxCompanies == 2
\* most new-import requests served in one behaviour
MaxImports == 1
\* most collaborator failures (a rejected read or write, a failed geocode)
\* in one behaviour
MaxFaults == 1
\* largest quantity of one import line
MaxQty == 2

(***************************************************************************)
(* Character classes of the JavaScript regular expressions.                *)
(***************************************************************************)
Digits == {"0", "1", "2", "3", "4", "5", "6", "7", "8", "9"}
Letters == {"a", "b", "g", "m", "x", "A", "B", "G", "K", "M", "X"}
Separators == {"-", "_"}

\* \d
IsDigit(c) == c \in Digits
\* \w : [A-Za-z0-9_]
IsWord(c) == c \in Digits \cup Letters \cup {"_"}
\* [-_]
IsSep(c) == c \in Separators

AllIn(s, from, to, Test(_)) == \A i \in from..to : Test(s[i])

(***************************************************************************)
(* ID_PATTERNS.PRODUCT_FLEXIBLE = /^(\d{3})[-_]?(\w{4})[-_]?(\w+)$/         *)
(* A parse is the pair <<a, b>>: a = 1 iff the first optional separator    *)
(* consumed a character, b likewise for the second one.                    *)
(***************************************************************************)
FlexParseOk(s, a, b) ==
    /\ Len(s) >= 3 + a + 4 + b + 1
    /\ AllIn(s, 1, 3, IsDigit)
    /\ (a = 1 => IsSep(s[4]))
    /\ AllIn(s, 4 + a, 7 + a, IsWord)
    /\ (b = 1 => IsSep(s[8 + a]))
    /\ AllIn(s, 8 + a + b, Len(s), IsWord)

\* the order in which a backtracking matcher tries the greedy optionals
FlexParseOrder == << <<1, 1>>, <<1, 0>>, <<0, 1>>, <<0, 0>> >>

FlexMatches(s) ==
    { k \in 1..Len(FlexParseOrder) :
        FlexParseOk(s, FlexParseOrder[k][1], FlexParseOrder[k][2]) }

\* isValidProductFlexible(id)
isValidProductFlexible(s) == FlexMatches(s) # {}

\* the first element of a set of positions
First(S) == CHOOSE k \in S : \A j \in S : k <= j

\* the capture groups when the separators are present as opt says
Captures(s, opt) ==
    [manufacturerId |-> SubSeq(s, 1, 3),
     middle         |-> SubSeq(s, 4 + opt[1], 7 + opt[1]),
     productId      |-> SubSeq(s, 8 + opt[1] + opt[2], Len(s))]

\* the match the regular expression engine reports: the first one in order
FlexMatch(s) == Captures(s, FlexParseOrder[First(FlexMatches(s))])

\* null / undefined / '' of an id or a name: the code tests these values for
\* falsiness only, and no capture of \d{3} is empty
Null == <<>>

\* `${match[1]}-${match[2]}-${match[3]}`
Dashed(m) ==
    m.manufacturerId \o <<"-">> \o m.middle \o <<"-">> \o m.productId

\* normalizeProductId(id)
normalizeProductId(s) ==
    IF ~isValidProductFlexible(s) THEN s ELSE Dashed(FlexMatch(s))

\* extractManufacturerIdFromProductId(productId)
extractManufacturerIdFromProductId(s) ==
    IF ~isValidProductFlexible(s) THEN Null ELSE FlexMatch(s).manufacturerId

(***************************************************************************)
(* Company id check of the import's Validate step: /^K\d{4,6}$/            *)
(***************************************************************************)
MinCompanyDigits == 4
MaxCompanyDigits == 6

ImportCompanyIdOk(s) ==
    /\ Len(s) >= 1 + MinCompanyDigits
    /\ Len(s) <= 1 + MaxCompanyDigits
    /\ s[1] = "K"
    /\ AllIn(s, 2, Len(s), IsDigit)

\* isValidRentalCompanyId(id): ID_PATTERNS.RENTAL_COMPANY = /^K\d{4,}$/
isValidRentalCompanyId(s) ==
    /\ Len(s) >= 1 + MinCompanyDigits
    /\ s[1] = "K"
    /\ AllIn(s, 2, Len(s), IsDigit)

(***************************************************************************)
(* cleanProductName(productName, manufacturerName)                         *)
(* Manufacturer names of the model hold letters only, so the regular       *)
(* expression built from the name matches the name itself.                 *)
(***************************************************************************)
Whitespace == {" "}
SpecialChars == {",", "(", "/", "\\", "-", "|"}

Lower(c) ==
    CASE c = "A" -> "a" [] c = "B" -> "b" [] c = "G" -> "g"
      [] c = "M" -> "m" [] c = "X" -> "x" [] OTHER -> c

RECURSIVE TrimStart(_)
TrimStart(s) ==
    IF s # <<>> /\ Head(s) \in Whitespace THEN TrimStart(Tail(s)) ELSE s

RECURSIVE TrimEnd(_)
TrimEnd(s) ==
    IF s # <<>> /\ s[Len(s)] \in Whitespace
    THEN TrimEnd(SubSeq(s, 1, Len(s) - 1)) ELSE s

\* String.prototype.trim
Trim(s) == TrimEnd(TrimStart(s))

\* s.replace(new RegExp(`^${name}\s+`, 'i'), '')
StripPrefix(s, name) ==
    LET n == Len(name)
    IN  IF /\ Len(s) > n
           /\ \A i \in 1..n : Lower(s[i]) = Lower(name[i])
           /\ s[n + 1] \in Whitespace
        THEN TrimStart(SubSeq(s, n + 1, Len(s)))
        ELSE s

\* index of the first special character, Len(s) + 1 when there is none
TruncateIndex(s) ==
    IF \A i \in 1..Len(s) : s[i] \notin SpecialChars THEN Len(s) + 1
    ELSE First({ i \in 1..Len(s) : s[i] \in SpecialChars })

\* .replace(/[,(\/\\\-|].*$/, '').trim()
Truncate(s) == Trim(SubSeq(s, 1, TruncateIndex(s) - 1))

cleanProductName(productName, manufacturerName) ==
    IF productName = <<>> THEN <<>>
    ELSE Truncate(IF manufacturerName # <<>>
                  THEN StripPrefix(Trim(productName), manufacturerName)
                  ELSE Trim(productName))

(***************************************************************************)
(* Identifiers and names the model draws its inputs from.                  *)
(***************************************************************************)
\* manufacturer 511 is stored, 559 and 777 are not
M_OLD == <<"5", "1", "1">>
M_NEW == <<"5", "5", "9">>
M_NONE == <<"7", "7", "7">>

\* 511-5083-3 is a stored product; 559-1065-2 is not, 5591065_2 is the same
\* id in a flexible spelling; 55-x does not match the product pattern
P_OLD == <<"5", "1", "1", "-", "5", "0", "8", "3", "-", "3">>
P_NEW == <<"5", "5", "9", "-", "1", "0", "6", "5", "-", "2">>
P_NEW_ALT == <<"5", "5", "9", "1", "0", "6", "5", "_", "2">>
P_BAD == <<"5", "5", "-", "x">>

\* K1001 is a stored company, K2002 is not; K12 has too few digits
K_OLD == <<"K", "1", "0", "0", "1">>
K_NEW == <<"K", "2", "0", "0", "2">>
K_BAD == <<"K", "1", "2">>
K_LONG == <<"K", "1", "2", "3", "4", "5", "6", "7">>

NameGG == <<"G", "G">>
NameAB == <<"A", "B">>
\* "GG MX-2": cleanProductName strips "GG " and cuts at "-"
NameProduct == <<"G", "G", " ", "M", "X", "-", "2">>
NameMX == <<"M", "X">>

ProductIdChoices == {P_OLD, P_NEW, P_NEW_ALT, P_BAD}
CompanyIdChoices == {K_OLD, K_NEW}

(***************************************************************************)
(* Import payloads: the value parseJSON returns for a top-level array      *)
(* (ImportRentalCompany[], lib/types).                                     *)
(***************************************************************************)
\* JSON values of other types: quantityType is typeof item.quantity, and
\* inventoryIsArray is Array.isArray(importRC.inventory)
ImportLines(manufacturerName) ==
    [productId : ProductIdChoices, productName : {NameProduct},
     manufacturerName : {manufacturerName}, quantity : 1..MaxQty,
     quantityType : {"number"}]

ImportCompany(id, lines) ==
    [id |-> id, name |-> "Acme", address |-> "Main St 1", city |-> "Berlin",
     postalCode |-> "12345", country |-> "DE", website |-> "",
     inventoryIsArray |-> TRUE, inventory |-> lines]

\* payloads of n records that pass the Validate step, at most budget lines;
\* all lines of one payload give the manufacturer name, or all omit it
RECURSIVE PayloadsOf(_, _, _)
PayloadsOf(n, budget, manufacturerName) ==
    IF n = 0 THEN { <<>> }
    ELSE UNION { { <<ImportCompany(id, lines)>> \o rest :
                     id \in CompanyIdChoices,
                     lines \in [1..k -> ImportLines(manufacturerName)],
                     rest \in PayloadsOf(n - 1, budget - k, manufacturerName) } :
                 k \in 1..(budget - (n - 1)) }

ValidPayloads ==
    UNION { PayloadsOf(n, MaxTotalLines, manufacturerName) :
              n \in 1..MaxCompanies, manufacturerName \in {Null, NameGG} }

\* one record with one violation of the Validate step
Defects(c) ==
    { [c EXCEPT !.id = K_BAD], [c EXCEPT !.id = K_LONG],
      [c EXCEPT !.id = Null],
      [c EXCEPT !.name = ""], [c EXCEPT !.address = ""],
      [c EXCEPT !.city = ""], [c EXCEPT !.postalCode = ""],
      [c EXCEPT !.country = ""],
      [c EXCEPT !.inventory = <<>>],
      [c EXCEPT !.inventoryIsArray = FALSE],
      [c EXCEPT !.inventory[1].productId = Null],
      [c EXCEPT !.inventory[1].quantity = 0],
      [c EXCEPT !.inventory[1].quantityType = "string"] }

GoodLine(pid) ==
    [productId |-> pid, productName |-> NameProduct,
     manufacturerName |-> NameGG, quantity |-> 1, quantityType |-> "number"]

\* payloads with a violation: alone, before and after a valid record
DefectivePayloads ==
    LET bases == { ImportCompany(id, <<GoodLine(pid)>>) :
                     id \in CompanyIdChoices, pid \in {P_OLD, P_NEW} }
        good  == ImportCompany(K_OLD, <<GoodLine(P_OLD)>>)
    IN  UNION { { <<d>>, <<good, d>>, <<d, good>> } :
                d \in UNION { Defects(b) : b \in bases } }

\* two companies stocking the same new product, only one of the two lines
\* giving the manufacturer's name
MixedPayloads ==
    { << ImportCompany(a, <<[GoodLine(P_NEW) EXCEPT !.manufacturerName = n[1]]>>),
         ImportCompany(b, <<[GoodLine(P_NEW_ALT) EXCEPT
                               !.manufacturerName = n[2]]>>) >> :
        a \in CompanyIdChoices, b \in CompanyIdChoices,
        n \in { <<NameGG, Null>>, <<Null, NameGG>> } }

Payloads == ValidPayloads \cup DefectivePayloads \cup MixedPayloads

(***************************************************************************)
(* options.resolutions: entity id -> {action, name?, referenceId?}.        *)
(***************************************************************************)
NoResolution == [action |-> "none", name |-> Null, referenceId |-> Null]

Resolution(action, name, referenceId) ==
    [action |-> action, name |-> name, referenceId |-> referenceId]

ResolutionChoices(key) ==
    IF key = M_NEW
    THEN { NoResolution,
           Resolution("create", NameGG, Null),
           Resolution("create", Null, Null),
           Resolution("reference", Null, M_OLD),
           Resolution("reference", Null, M_NONE),
           Resolution("reference", Null, Null),
           Resolution("skip", Null, Null) }
    ELSE IF key = P_OLD
    THEN { NoResolution, Resolution("create", NameGG, Null) }
    ELSE { NoResolution, Resolution("create", NameMX, Null) }

\* the order of Object.entries: integer-like keys ascending, then the others
ResolutionKeyOrder == <<M_NEW, P_OLD, P_NEW>>

ResolutionKeys == { ResolutionKeyOrder[k] : k \in 1..Len(ResolutionKeyOrder) }

\* an entry for the stored product comes only with the plain answer to the
\* missing manufacturer
ResolutionMaps ==
    { [k \in { x \in ResolutionKeys : f[x] # NoResolution } |-> f[k]] :
        f \in { g \in [ResolutionKeys -> UNION { ResolutionChoices(k) :
                                                  k \in ResolutionKeys }] :
                  /\ \A k \in ResolutionKeys : g[k] \in ResolutionChoices(k)
                  /\ g[P_OLD] # NoResolution =>
                        /\ g[P_NEW] = NoResolution
                        /\ g[M_NEW] = Resolution("create", NameGG, Null) } }

NoResolutions == [k \in {} |-> NoResolution]

\* the resolutions a first request carries in its options: none, or one entry
\* for the manufacturer the file introduces
InitialResolutionMaps ==
    { m \in ResolutionMaps :
        /\ DOMAIN m \subseteq {M_NEW}
        /\ \A k \in DOMAIN m :
              m[k] \in { Resolution("create", NameGG, Null),
                         Resolution("reference", Null, M_OLD),
                         Resolution("reference", Null, M_NONE),
                         Resolution("skip", Null, Null) } }

(***************************************************************************)
(* Errors the import reports: the message template and what it names.      *)
(***************************************************************************)
Err(kind, ref) == [kind |-> kind, ref |-> ref]

\* 'Missing manufacturers need to be resolved: ...'
MissingMessage == Err("missing-manufacturers", Null)

(***************************************************************************)
(* processImportData, Validate step (one record).                          *)
(***************************************************************************)
RECURSIVE ValidateItems(_, _)
ValidateItems(items, id) ==
    IF items = <<>> THEN <<>>
    ELSE LET item == Head(items)
         IN  (IF item.productId = Null
              THEN <<Err("missing-product-id", id)>> ELSE <<>>)
             \o (IF item.quantityType # "number" \/ item.quantity <= 0
                 THEN <<Err("invalid-quantity", id)>> ELSE <<>>)
             \o ValidateItems(Tail(items), id)

\* a faulty variant of the record check: it does not look at the city
ValidateRecordNoCity(importRC) ==
    (IF importRC.id = Null \/ ~ImportCompanyIdOk(importRC.id)
     THEN <<Err("invalid-company-id", importRC.id)>> ELSE <<>>)
    \o (IF importRC.name = "" THEN <<Err("missing-name", importRC.id)>> ELSE <<>>)
    \o (IF importRC.address = ""
        THEN <<Err("missing-address", importRC.id)>> ELSE <<>>)
    \o (IF importRC.postalCode = ""
        THEN <<Err("missing-postal-code", importRC.id)>> ELSE <<>>)
    \o (IF importRC.country = ""
        THEN <<Err("missing-country", importRC.id)>> ELSE <<>>)
    \o (IF ~importRC.inventoryIsArray \/ Len(importRC.inventory) = 0
        THEN <<Err("empty-inventory", importRC.id)>>
        ELSE ValidateItems(importRC.inventory, importRC.id))

ValidateRecord(importRC) ==
    (IF importRC.id = Null \/ ~ImportCompanyIdOk(importRC.id)
     THEN <<Err("invalid-company-id", importRC.id)>> ELSE <<>>)
    \o (IF importRC.name = "" THEN <<Err("missing-name", importRC.id)>> ELSE <<>>)
    \o (IF importRC.address = ""
        THEN <<Err("missing-address", importRC.id)>> ELSE <<>>)
    \o (IF importRC.city = "" THEN <<Err("missing-city", importRC.id)>> ELSE <<>>)
    \o (IF importRC.postalCode = ""
        THEN <<Err("missing-postal-code", importRC.id)>> ELSE <<>>)
    \o (IF importRC.country = ""
        THEN <<Err("missing-country", importRC.id)>> ELSE <<>>)
    \o (IF ~importRC.inventoryIsArray \/ Len(importRC.inventory) = 0
        THEN <<Err("empty-inventory", importRC.id)>>
        ELSE ValidateItems(importRC.inventory, importRC.id))

RECURSIVE ValidateImport(_)
ValidateImport(importData) ==
    IF importData = <<>> THEN <<>>
    ELSE ValidateRecord(Head(importData)) \o ValidateImport(Tail(importData))

(***************************************************************************)
(* Documents and lookup maps.                                              *)
(***************************************************************************)
Put(map, key, value) ==
    [k \in DOMAIN map \cup {key} |-> IF k = key THEN value ELSE map[k]]

EmptyMap == [k \in {} |-> Null]

ManufacturerDoc(name) == [name |-> name, isActive |-> TRUE]

ProductDoc(name, manufacturerId) ==
    [name |-> name, manufacturerId |-> manufacturerId, isActive |-> TRUE]

\* an entry of newManufacturers / newProducts / newRentalCompanies
Entry(id, doc) == [id |-> id, doc |-> doc]

ZeroStats == [manufacturers |-> 0, products |-> 0, rentalCompanies |-> 0]

(***************************************************************************)
(* processImportData, "Process any resolutions provided".                  *)
(* The state threaded through is the function's local variables.           *)
(***************************************************************************)
\* entityId.indexOf('-') !== -1
isProbablyProduct(entityId) == \E i \in 1..Len(entityId) : entityId[i] = "-"

\* a product key with action 'create'
CreateResolvedProduct(loc, entityId, cleanedProductName, manufacturerId) ==
    IF cleanedProductName = Null
    THEN [loc EXCEPT !.errors =
              Append(@, Err("resolution-product-name", entityId))]
    ELSE IF manufacturerId = Null
    THEN [loc EXCEPT !.errors =
              Append(@, Err("resolution-product-id", entityId))]
    ELSE [loc EXCEPT
            !.newProducts =
                Append(@, Entry(entityId,
                    ProductDoc(cleanedProductName, manufacturerId))),
            !.productsMap =
                Put(@, entityId,
                    ProductDoc(cleanedProductName, manufacturerId)),
            !.created.products = @ + 1]

ApplyResolution(loc, entityId, resolution) ==
    IF isProbablyProduct(entityId) /\ resolution.action = "create"
    THEN CreateResolvedProduct(loc, entityId,
             cleanProductName(resolution.name, Null),
             extractManufacturerIdFromProductId(entityId))
    ELSE IF ~isProbablyProduct(entityId) /\ resolution.action = "create"
    THEN IF resolution.name = Null
         THEN [loc EXCEPT !.errors =
                   Append(@, Err("resolution-manufacturer-name", entityId))]
         ELSE [loc EXCEPT
                 !.newManufacturers =
                     Append(@, Entry(entityId, ManufacturerDoc(resolution.name))),
                 !.manufacturersMap =
                     Put(@, entityId, ManufacturerDoc(resolution.name)),
                 !.created.manufacturers = @ + 1]
    ELSE IF resolution.action = "reference"
    THEN IF resolution.referenceId = Null
         THEN [loc EXCEPT !.errors =
                   Append(@, Err("resolution-reference-id", entityId))]
         ELSE IF resolution.referenceId \notin DOMAIN loc.manufacturersMap
         THEN [loc EXCEPT !.errors =
                   Append(@, Err("resolution-reference-unknown",
                                 resolution.referenceId))]
         ELSE loc
    ELSE loc

RECURSIVE ApplyResolutions(_, _, _)
ApplyResolutions(loc, keys, resolutions) ==
    IF keys = <<>> THEN loc
    ELSE ApplyResolutions(
             IF Head(keys) \in DOMAIN resolutions
             THEN ApplyResolution(loc, Head(keys), resolutions[Head(keys)])
             ELSE loc,
             Tail(keys), resolutions)

(***************************************************************************)
(* processImportData, the loop over one company's inventory lines.         *)
(* loc carries the function's locals; inventory and                        *)
(* companyMissingManufacturers are the locals of the enclosing iteration.  *)
(***************************************************************************)
\* options.resolutions && options.resolutions[manufacturerId]
IsResolved(options, manufacturerId) ==
    manufacturerId \in DOMAIN options.resolutions

\* !missingManufacturers.some(m => m.id === manufacturerId)
NotYetTracked(loc, manufacturerId) ==
    ~\E k \in 1..Len(loc.missingManufacturers) :
        loc.missingManufacturers[k].id = manufacturerId

\* "Handle manufacturer references (if any)"
EffectiveManufacturerId(options, manufacturerId) ==
    IF /\ IsResolved(options, manufacturerId)
       /\ options.resolutions[manufacturerId].action = "reference"
       /\ options.resolutions[manufacturerId].referenceId # Null
    THEN options.resolutions[manufacturerId].referenceId
    ELSE manufacturerId

\* the else-if branch that skips the line
IsSkipped(options, manufacturerId) ==
    /\ IsResolved(options, manufacturerId)
    /\ ~(/\ options.resolutions[manufacturerId].action = "reference"
         /\ options.resolutions[manufacturerId].referenceId # Null)
    /\ options.resolutions[manufacturerId].action = "skip"

\* "Check if product exists": a product not in productsMap is created
AddProduct(loc, normalizedProductId, doc) ==
    IF normalizedProductId \notin DOMAIN loc.productsMap
    THEN [loc EXCEPT
            !.newProducts = Append(@, Entry(normalizedProductId, doc)),
            !.productsMap = Put(@, normalizedProductId, doc),
            !.created.products = @ + 1]
    ELSE loc

\* "Check if product exists" ... "Add to inventory"
AddProductAndLine(loc, item, normalizedProductId, effectiveManufacturerId) ==
    [AddProduct(loc, normalizedProductId,
         ProductDoc(cleanProductName(item.productName, item.manufacturerName),
                    effectiveManufacturerId))
       EXCEPT !.inventory = Append(@, [productId |-> normalizedProductId,
                                       quantity  |-> item.quantity])]

\* "Create new manufacturer" of the line loop
AddManufacturer(loc, manufacturerId, manufacturerName) ==
    [loc EXCEPT
       !.newManufacturers =
           Append(@, Entry(manufacturerId, ManufacturerDoc(manufacturerName))),
       !.manufacturersMap =
           Put(@, manufacturerId, ManufacturerDoc(manufacturerName)),
       !.created.manufacturers = @ + 1]

\* the body of the line loop once the ids of the line are known
ProcessLine(loc, item, importRC, options, normalizedProductId, manufacturerId) ==
    LET hasManufacturer == manufacturerId \in DOMAIN loc.manufacturersMap
        isResolved == IsResolved(options, manufacturerId)
        withManufacturer ==
            IF ~hasManufacturer /\ ~isResolved
            THEN AddManufacturer(loc, manufacturerId, item.manufacturerName)
            ELSE loc
    IN  IF manufacturerId = Null
        THEN [loc EXCEPT !.errors = Append(@, Err("extract", item.productId))]
        ELSE IF ~hasManufacturer /\ ~isResolved
                /\ ~options.createMissingEntities
        THEN IF NotYetTracked(loc, manufacturerId)
             THEN [loc EXCEPT !.companyMissingManufacturers =
                       Append(@, [id            |-> manufacturerId,
                                  referenceName |-> item.manufacturerName,
                                  referencedIn  |-> importRC.id])]
             ELSE loc
        ELSE IF ~hasManufacturer /\ ~isResolved
                /\ item.manufacturerName = Null
        THEN [loc EXCEPT !.errors =
                  Append(@, Err("missing-manufacturer-name", manufacturerId))]
        ELSE IF IsSkipped(options, manufacturerId)
        THEN withManufacturer
        ELSE AddProductAndLine(withManufacturer, item, normalizedProductId,
                 EffectiveManufacturerId(options, manufacturerId))

ProcessItem(loc, item, importRC, options) ==
    ProcessLine(loc, item, importRC, options,
        normalizeProductId(item.productId),
        extractManufacturerIdFromProductId(
            normalizeProductId(item.productId)))

RECURSIVE ProcessItems(_, _, _, _)
ProcessItems(loc, items, importRC, options) ==
    IF items = <<>> THEN loc
    ELSE ProcessItems(ProcessItem(loc, Head(items), importRC, options),
                      Tail(items), importRC, options)

(***************************************************************************)
(* Firestore writes of the import.                                         *)
(***************************************************************************)
\* the fields of the update that are spread in only when truthy
\* (phone and email are handled exactly as website and are left out)
PatchableFields == {"address", "city", "country", "postalCode", "website"}

\* a faulty variant of the update's argument: every patchable field is
\* sent, empty or not
UpdatePatchAll(importRC, inventory) ==
    [f \in {"inventory"} \cup PatchableFields |->
        IF f = "inventory" THEN inventory ELSE importRC[f]]

\* the argument of firestoreService.updateRentalCompany
UpdatePatch(importRC, inventory) ==
    [f \in {"inventory"} \cup { g \in PatchableFields : importRC[g] # "" } |->
        IF f = "inventory" THEN inventory ELSE importRC[f]]

\* updateDoc(docRef, updateData): the named fields are replaced
updateDoc(doc, patch) ==
    [f \in DOMAIN doc |-> IF f \in DOMAIN patch THEN patch[f] ELSE doc[f]]

\* the document of newRentalCompanies.push({...})
NewCompanyDoc(importRC, coordinates, inventory) ==
    [name |-> importRC.name, address |-> importRC.address,
     city |-> importRC.city, postalCode |-> importRC.postalCode,
     country |-> importRC.country, latitude |-> coordinates.latitude,
     longitude |-> coordinates.longitude, website |-> importRC.website,
     isActive |-> TRUE, inventory |-> inventory]

\* a batch whose writes create documents and leave stored ones alone
RECURSIVE batchCreate(_, _)
batchCreate(collection, entries) ==
    IF entries = <<>> THEN collection
    ELSE batchCreate(IF Head(entries).id \in DOMAIN collection THEN collection
                     ELSE Put(collection, Head(entries).id, Head(entries).doc),
                     Tail(entries))

\* batch.set(docRef, data) for every entry, in order
RECURSIVE batchSet(_, _)
batchSet(collection, entries) ==
    IF entries = <<>> THEN collection
    ELSE batchSet(Put(collection, Head(entries).id, Head(entries).doc),
                  Tail(entries))

\* what geocodingService.geocodeAddress can answer
GeocodeOutcomes ==
    { [throws |-> FALSE, latitude |-> 52, longitude |-> 13],
      [throws |-> FALSE, latitude |-> 0, longitude |-> 0],
      [throws |-> TRUE, latitude |-> 0, longitude |-> 0] }

(***************************************************************************)
(* State.                                                                  *)
(***************************************************************************)
VARIABLES
    payload,          \* the import data the admin submits (parsed JSON array)
    dbManufacturers,  \* Firestore collection 'manufacturers': id -> document
    dbProducts,       \* Firestore collection 'products'
    dbCompanies,      \* Firestore collection 'rental-companies'
    importSessions,   \* the route's Map: session id -> session
    issued,           \* how many session ids randomUUID has handed out
    pc,               \* where the request being served stands
    req,              \* the request being served and its import options
    loc,              \* local variables of processImportData
    calls,            \* collaborator calls of the current import invocation
    result,           \* what importData returned to the route
    response,         \* the last response of POST /api/import
    imports,          \* new-import requests served
    faults,           \* collaborator failures so far
    manufacturersStore,    \* rentalStore: writable<Manufacturer[]>
    productsStore,         \* rentalStore: writable<Product[]>
    rentalCompaniesStore,  \* rentalStore: writable<RentalCompany[]>
    isLoading,             \* rentalStore: writable<boolean>
    error,                 \* rentalStore: writable<string | null>
    searchFilters,         \* rentalStore: {text, manufacturers, products}
    location,              \* the query string of window.location
    lastEvent,             \* the store function called last, and the
                           \* filters it found
    csvString,             \* the CSV text handed to parseCSV
    parsed,                \* what parseCSV returned for it
    invocations,           \* import invocations running side by side
    commitOrder            \* the invocations whose batch was committed,
                           \* in the order of the commits

\* invocations of processImportData that overlap in time
overlapping == <<invocations, commitOrder>>

\* what is handed to the import: the payload, or CSV text and its parse,
\* or the requests of overlapping invocations
input == <<payload, csvString, parsed, overlapping>>

\* the client side: the stores of rentalStore and the page's URL
view == <<manufacturersStore, productsStore, rentalCompaniesStore, isLoading,
          error, searchFilters, location, lastEvent>>

vars == <<input, dbManufacturers, dbProducts, dbCompanies, importSessions,
          issued, pc, req, loc, calls, result, response, imports, faults,
          view>>

db == <<dbManufacturers, dbProducts, dbCompanies>>

NoLoc ==
    [errors |-> <<>>, manufacturersMap |-> EmptyMap, productsMap |-> EmptyMap,
     rentalCompaniesMap |-> EmptyMap, newManufacturers |-> <<>>,
     newProducts |-> <<>>, newRentalCompanies |-> <<>>,
     missingManufacturers |-> <<>>, created |-> ZeroStats,
     updated |-> ZeroStats, inventory |-> <<>>,
     companyMissingManufacturers |-> <<>>, i |-> 1]

NoResult ==
    [success |-> FALSE, created |-> ZeroStats, updated |-> ZeroStats,
     errors |-> <<>>, hasMissing |-> FALSE, missingManufacturers |-> <<>>]

NoRequest ==
    [kind |-> "none", sessionId |-> 0, data |-> <<>>,
     options |-> [createMissingEntities |-> FALSE,
                  resolutions |-> NoResolutions]]

NoSession ==
    [data |-> <<>>, format |-> "json", options |-> NoRequest.options,
     missingEntities |-> <<>>]

NoResponse ==
    [status |-> 0, success |-> FALSE, error |-> "", hasMissing |-> FALSE,
     missingEntities |-> <<>>, importSessionId |-> 0,
     created |-> ZeroStats, updated |-> ZeroStats, errors |-> <<>>]

StoredCompany ==
    [name |-> "Old Co", address |-> "Old St 9", city |-> "Bonn",
     postalCode |-> "53111", country |-> "DE", latitude |-> 50,
     longitude |-> 7, website |-> "old.example", isActive |-> TRUE,
     inventory |-> <<[productId |-> P_OLD, quantity |-> 3]>>]

\* the catalogue and the company stored before the import
StoredManufacturers == (M_OLD :> ManufacturerDoc(NameAB))

StoredProducts == (P_OLD :> ProductDoc(NameMX, M_OLD))

StoredCompanies == (K_OLD :> StoredCompany)

\* searchFilters as rentalStore creates it
EmptyFilters == [text |-> <<>>, manufacturers |-> <<>>, products |-> <<>>]

\* a URL without the parameters q, manufacturers and products
NoUrl == [q |-> <<>>, manufacturers |-> <<>>, products |-> <<>>]

NoEvent == [op |-> "none", arg |-> <<>>, before |-> EmptyFilters]

\* the stores as the module creates them, before loadInitialData
ViewInit ==
    /\ manufacturersStore = <<>>
    /\ productsStore = <<>>
    /\ rentalCompaniesStore = <<>>
    /\ isLoading = TRUE
    /\ error = Null
    /\ searchFilters = EmptyFilters
    /\ lastEvent = NoEvent

\* no CSV text has been handed in
NotParsed == [status |-> "none", started |-> <<>>, values |-> <<>>]

NoCsv ==
    /\ csvString = <<>>
    /\ parsed = NotParsed

\* one request is served at a time
NoOverlap ==
    /\ invocations = <<>>
    /\ commitOrder = <<>>

Init ==
    /\ payload \in Payloads
    /\ NoCsv
    /\ NoOverlap
    /\ ViewInit
    /\ location = NoUrl
    /\ dbManufacturers = StoredManufacturers
    /\ dbProducts = StoredProducts
    /\ dbCompanies = StoredCompanies
    /\ importSessions = [t \in {} |-> NoSession]
    /\ issued = 0
    /\ pc = "idle"
    /\ req = NoRequest
    /\ loc = NoLoc
    /\ calls = <<>>
    /\ result = NoResult
    /\ response = NoResponse
    /\ imports = 0
    /\ faults = 0

(***************************************************************************)
(* POST /api/import: the request arrives.                                  *)
(***************************************************************************)
\* importData's "Apply options": createMissingEntities === true, resolutions || {}
ImportOptions(createMissingEntities, resolutions) ==
    [createMissingEntities |-> createMissingEntities,
     resolutions |-> resolutions]

StartImport(request) ==
    /\ req' = request
    /\ loc' = NoLoc
    /\ calls' = <<>>
    /\ result' = NoResult
    /\ response' = NoResponse
    /\ pc' = "validate"

\* a body that is neither a resume nor a well-formed new import (no data, or
\* a format other than 'csv' / 'json'): 400
PostInvalid ==
    /\ pc = "idle"
    /\ imports < MaxImports
    /\ imports' = imports + 1
    /\ req' = [NoRequest EXCEPT !.kind = "invalid"]
    /\ response' = [NoResponse EXCEPT !.status = 400,
                       !.error = "Invalid import data or format"]
    /\ UNCHANGED <<input, view, db, importSessions, issued, pc, loc, calls,
                   result, faults>>

\* body {data, format: 'json', options}: a new import; options is the
\* ImportOptions object of the body, which importData reads
\* createMissingEntities and resolutions from
PostNewImport(createMissingEntities, resolutions) ==
    /\ pc = "idle"
    /\ imports < MaxImports
    /\ imports' = imports + 1
    /\ StartImport([kind |-> "new", sessionId |-> 0, data |-> payload,
                    options |-> ImportOptions(createMissingEntities,
                                              resolutions)])
    /\ UNCHANGED <<input, view, db, importSessions, issued, faults>>

\* body {importSessionId, resolutions} naming no stored session: 404,
\* whatever the resolutions are
PostResumeUnknown(sessionId) ==
    /\ pc = "idle"
    /\ sessionId \notin DOMAIN importSessions
    /\ req' = [NoRequest EXCEPT !.kind = "resume-unknown",
                                !.sessionId = sessionId]
    /\ response' = [NoResponse EXCEPT !.status = 404,
                       !.error = "Import session not found or expired"]
    /\ UNCHANGED <<input, view, db, importSessions, issued, pc, loc, calls,
                   result, imports, faults>>

\* body {importSessionId, resolutions}: resume a stored session
PostResume(sessionId, resolutions) ==
    /\ pc = "idle"
    /\ sessionId \in DOMAIN importSessions
    /\ LET sessionData == importSessions[sessionId]
       IN  StartImport([kind |-> "resume", sessionId |-> sessionId,
                        data |-> sessionData.data,
                        options |-> ImportOptions(
                            sessionData.options.createMissingEntities,
                            resolutions)])
    /\ UNCHANGED <<input, view, db, importSessions, issued, imports, faults>>

(***************************************************************************)
(* processImportData, step by step (one action per stretch between two     *)
(* awaits, the outcome of the awaited call included).                      *)
(***************************************************************************)
\* a collaborator call fails only while the budget of failures lasts
Fault(failed) ==
    /\ (failed => faults < MaxFaults)
    /\ faults' = IF failed THEN faults + 1 ELSE faults

\* what importData's catch block returns for a rejected call
Rejected(kind) ==
    [NoResult EXCEPT !.errors = <<Err(kind, Null)>>]

Validate ==
    /\ pc = "validate"
    /\ \E errors \in {ValidateImport(req.data)} :
         IF errors # <<>>
         THEN /\ result' = [NoResult EXCEPT !.errors = errors]
              /\ pc' = "respond"
         ELSE /\ pc' = "read"
              /\ UNCHANGED result
    /\ UNCHANGED <<input, view, db, importSessions, issued, req, loc, calls,
                   response, imports, faults>>

\* getRentalCompanies({}): where('isActive', '==', true)
ActiveCompanies ==
    [id \in { k \in DOMAIN dbCompanies : dbCompanies[k].isActive } |->
        dbCompanies[id]]

ReadOps == <<"getManufacturers", "getProducts", "getRentalCompanies">>

\* "Get existing data": three reads; failedAt = 0 when none rejects
ReadSnapshot(failedAt) ==
    /\ pc = "read"
    /\ Fault(failedAt # 0)
    /\ calls' = calls \o [k \in 1..(IF failedAt = 0 THEN Len(ReadOps)
                                    ELSE failedAt) |-> [op |-> ReadOps[k]]]
    /\ IF failedAt # 0
       THEN /\ result' = Rejected("read-failed")
            /\ pc' = "respond"
            /\ UNCHANGED loc
       ELSE /\ loc' = [loc EXCEPT !.manufacturersMap = dbManufacturers,
                                  !.productsMap = dbProducts,
                                  !.rentalCompaniesMap = ActiveCompanies]
            /\ pc' = "resolve"
            /\ UNCHANGED result
    /\ UNCHANGED <<input, view, db, importSessions, issued, req, response,
                   imports>>

ProcessResolutions ==
    /\ pc = "resolve"
    /\ loc' = ApplyResolutions(loc, ResolutionKeyOrder, req.options.resolutions)
    /\ pc' = "company"
    /\ UNCHANGED <<input, view, db, importSessions, issued, req, calls, result,
                   response, imports, faults>>

\* "Add to overall missing manufacturers"
AddToOverallMissing(done) ==
    [done EXCEPT !.missingManufacturers =
                     @ \o done.companyMissingManufacturers]

\* the loop body for company loc.i up to its await: the inventory loop and
\* "Add to overall missing manufacturers"
ItemsOf(l, importRC, options) ==
    AddToOverallMissing(
        ProcessItems([l EXCEPT !.inventory = <<>>,
                               !.companyMissingManufacturers = <<>>],
                     importRC.inventory, importRC, options))

AfterItems == ItemsOf(loc, req.data[loc.i], req.options)

\* a company whose lines left a manufacturer unresolved: nothing is written
DeferCompany ==
    /\ pc = "company"
    /\ loc.i <= Len(req.data)
    /\ \E after \in {AfterItems} :
         /\ after.companyMissingManufacturers # <<>>
         /\ loc' = [after EXCEPT !.i = @ + 1]
    /\ UNCHANGED <<input, view, db, importSessions, issued, pc, req, calls,
                   result, response, imports, faults>>

\* "Update existing rental company": await updateRentalCompany(id, {...})
UpdateCompany(fails) ==
    /\ pc = "company"
    /\ Fault(fails)
    /\ loc.i <= Len(req.data)
    /\ req.data[loc.i].id \in DOMAIN loc.rentalCompaniesMap
    /\ \E after \in {AfterItems}, importRC \in {req.data[loc.i]} :
         /\ after.companyMissingManufacturers = <<>>
         /\ \E patch \in {UpdatePatch(importRC, after.inventory)} :
              /\ calls' = Append(calls, [op |-> "updateRentalCompany",
                                         id |-> importRC.id, data |-> patch])
              /\ IF fails \/ importRC.id \notin DOMAIN dbCompanies
                 THEN /\ result' = Rejected("update-failed")
                      /\ pc' = "respond"
                      /\ loc' = after
                      /\ UNCHANGED dbCompanies
                 ELSE /\ dbCompanies' =
                           [dbCompanies EXCEPT
                              ![importRC.id] = updateDoc(@, patch)]
                      /\ loc' = [after EXCEPT
                                   !.updated.rentalCompanies = @ + 1,
                                   !.i = @ + 1]
                      /\ UNCHANGED <<result, pc>>
    /\ UNCHANGED <<input, view, dbManufacturers, dbProducts, importSessions,
                   issued, req, response, imports>>

\* coordinates.latitude === 0 && coordinates.longitude === 0
NullIsland(coordinates) ==
    coordinates.latitude = 0 /\ coordinates.longitude = 0

GeocodeFailed(coordinates) == coordinates.throws \/ NullIsland(coordinates)

\* "Add as new rental company": await geocodeAddress(formattedAddress)
CreateCompany(coordinates) ==
    /\ pc = "company"
    /\ Fault(GeocodeFailed(coordinates))
    /\ loc.i <= Len(req.data)
    /\ req.data[loc.i].id \notin DOMAIN loc.rentalCompaniesMap
    /\ \E after \in {AfterItems}, importRC \in {req.data[loc.i]} :
         /\ after.companyMissingManufacturers = <<>>
         /\ calls' = Append(calls, [op |-> "geocodeAddress",
                                    id |-> importRC.id])
         /\ loc' =
              IF coordinates.throws
              THEN [after EXCEPT
                      !.errors = Append(@, Err("geocoding-failed",
                                               importRC.id)),
                      !.i = @ + 1]
              ELSE IF NullIsland(coordinates)
              THEN [after EXCEPT
                      !.errors = Append(@, Err("geocoding-invalid",
                                               importRC.id)),
                      !.i = @ + 1]
              ELSE [after EXCEPT
                      !.newRentalCompanies =
                          Append(@, Entry(importRC.id,
                              NewCompanyDoc(importRC, coordinates,
                                            after.inventory))),
                      !.created.rentalCompanies = @ + 1,
                      !.i = @ + 1]
    /\ UNCHANGED <<input, view, db, importSessions, issued, pc, req, result,
                   response, imports>>

\* "Check if we have manufacturers that need resolution": return, no batch
ReturnMissing ==
    /\ pc = "company"
    /\ loc.i > Len(req.data)
    /\ loc.missingManufacturers # <<>>
    /\ ~req.options.createMissingEntities
    /\ result' = [NoResult EXCEPT
                    !.errors = <<MissingMessage>>,
                    !.hasMissing = TRUE,
                    !.missingManufacturers = loc.missingManufacturers]
    /\ pc' = "respond"
    /\ UNCHANGED <<input, view, db, importSessions, issued, req, loc, calls,
                   response, imports, faults>>

\* importData's return: success is errors.length === 0
Completed(errors) ==
    [NoResult EXCEPT !.success = (errors = <<>>), !.created = loc.created,
                     !.updated = loc.updated, !.errors = errors]

\* "Batch import new entities": await firestoreService.importData({...})
Commit(fails) ==
    /\ pc = "company"
    /\ Fault(fails)
    /\ loc.i > Len(req.data)
    /\ ~(loc.missingManufacturers # <<>> /\ ~req.options.createMissingEntities)
    /\ IF loc.newManufacturers = <<>> /\ loc.newProducts = <<>>
          /\ loc.newRentalCompanies = <<>>
       THEN /\ ~fails
            /\ result' = Completed(loc.errors)
            /\ UNCHANGED <<db, calls>>
       ELSE /\ calls' = Append(calls,
                  [op |-> "importData",
                   manufacturers |-> loc.newManufacturers,
                   products |-> loc.newProducts,
                   rentalCompanies |-> loc.newRentalCompanies])
            /\ IF fails
               THEN /\ result' = Completed(
                           Append(loc.errors, Err("import-failed", Null)))
                    /\ UNCHANGED db
               ELSE /\ result' = Completed(loc.errors)
                    /\ dbManufacturers' =
                           batchSet(dbManufacturers, loc.newManufacturers)
                    /\ dbProducts' = batchSet(dbProducts, loc.newProducts)
                    /\ dbCompanies' =
                           batchSet(dbCompanies, loc.newRentalCompanies)
    /\ pc' = "respond"
    /\ UNCHANGED <<input, view, importSessions, issued, req, loc, response,
                   imports>>

(***************************************************************************)
(* POST /api/import: what the handler does once importData has returned.   *)
(***************************************************************************)
\* json({success, message, created, updated, errors})
ResultResponse ==
    [NoResponse EXCEPT !.status = 200, !.success = result.success,
                       !.created = result.created, !.updated = result.updated,
                       !.errors = result.errors]

\* result.errors.some(e => e.includes('Missing manufacturers need to be resolved'))
ReportsMissing(errors) ==
    \E k \in 1..Len(errors) : errors[k] = MissingMessage

\* result.missingManufacturers mapped to MissingEntity objects
MissingEntities(res) ==
    IF res.hasMissing
    THEN [k \in 1..Len(res.missingManufacturers) |->
            [type |-> "manufacturer", id |-> res.missingManufacturers[k].id,
             referencedIn |-> res.missingManufacturers[k].referencedIn,
             referenceName |-> res.missingManufacturers[k].referenceName]]
    ELSE <<>>

\* a faulty variant of the resume branch: the session is not cleared
RespondResumeKeepsSession ==
    /\ pc = "respond"
    /\ req.kind = "resume"
    /\ response' = ResultResponse
    /\ pc' = "idle"
    /\ UNCHANGED <<input, view, db, importSessions, issued, req, loc, calls,
                   result, imports, faults>>

\* the resume branch: "Clear the session", then the result
RespondResume ==
    /\ pc = "respond"
    /\ req.kind = "resume"
    /\ importSessions' =
           [t \in DOMAIN importSessions \ {req.sessionId} |-> importSessions[t]]
    /\ response' = ResultResponse
    /\ pc' = "idle"
    /\ UNCHANGED <<input, view, db, issued, req, loc, calls, result, imports,
                   faults>>

\* the new-import branch: a session when manufacturers are missing
RespondNew ==
    /\ pc = "respond"
    /\ req.kind = "new"
    /\ IF ~req.options.createMissingEntities
          /\ ReportsMissing(result.errors)
       THEN \E sessionId \in {issued + 1},
               missingEntities \in {MissingEntities(result)} :
                /\ issued' = sessionId
                /\ importSessions' =
                       Put(importSessions, sessionId,
                           [data |-> req.data, format |-> "json",
                            options |-> req.options,
                            missingEntities |-> missingEntities])
                /\ response' =
                       [NoResponse EXCEPT
                          !.status = 200, !.hasMissing = TRUE,
                          !.missingEntities = missingEntities,
                          !.importSessionId = sessionId]
       ELSE /\ response' = ResultResponse
            /\ UNCHANGED <<importSessions, issued>>
    /\ pc' = "idle"
    /\ UNCHANGED <<input, view, db, req, loc, calls, result, imports, faults>>

\* session ids a client may name: the issued ones and one never issued
SessionIdChoices == 0..issued

Next ==
    \/ PostInvalid
    \/ \E cme \in BOOLEAN, resolutions \in InitialResolutionMaps :
           PostNewImport(cme, resolutions)
    \/ \E sessionId \in SessionIdChoices : PostResumeUnknown(sessionId)
    \/ \E sessionId \in SessionIdChoices, resolutions \in ResolutionMaps :
           PostResume(sessionId, resolutions)
    \/ Validate
    \/ \E failedAt \in 0..Len(ReadOps) : ReadSnapshot(failedAt)
    \/ ProcessResolutions
    \/ DeferCompany
    \/ \E fails \in BOOLEAN : UpdateCompany(fails)
    \/ \E coordinates \in GeocodeOutcomes : CreateCompany(coordinates)
    \/ ReturnMissing
    \/ \E fails \in BOOLEAN : Commit(fails)
    \/ RespondResume
    \/ RespondNew

Spec == Init /\ [][Next]_vars


(***************************************************************************)
(* Vocabulary of the properties.                                           *)
(***************************************************************************)
\* importData has returned to the route and the response is not yet sent
Returned == pc = "respond" /\ req.kind \in {"new", "resume"}

UpdateCalls == { k \in 1..Len(calls) : calls[k].op = "updateRentalCompany" }

BatchCalls == { k \in 1..Len(calls) : calls[k].op = "importData" }

ReadCalls ==
    { k \in 1..Len(calls) :
        calls[k].op \in {"getManufacturers", "getProducts",
                         "getRentalCompanies"} }

GeocodeCalls == { k \in 1..Len(calls) : calls[k].op = "geocodeAddress" }

Ids(entries) == { entries[k].id : k \in 1..Len(entries) }

\* the import lines of a record whose normalized product id is pid
LinesOf(importRC, pid) ==
    { k \in 1..Len(importRC.inventory) :
        normalizeProductId(importRC.inventory[k].productId) = pid }

RECURSIVE SumQuantity(_, _)
SumQuantity(lines, ks) ==
    IF ks = {} THEN 0
    ELSE LET k == CHOOSE x \in ks : TRUE
         IN  lines[k].quantity + SumQuantity(lines, ks \ {k})

\* an inventory with one line per product id, each at the summed quantity
Merged(inventory, importRC) ==
    /\ \A i, j \in 1..Len(inventory) :
         inventory[i].productId = inventory[j].productId => i = j
    /\ \A i \in 1..Len(inventory) :
         inventory[i].quantity =
             SumQuantity(importRC.inventory,
                         LinesOf(importRC, inventory[i].productId))

MergedForSome(id, inventory) ==
    \E k \in 1..Len(req.data) :
        req.data[k].id = id /\ Merged(inventory, req.data[k])

\* the violations the Validate step is to catch, per record
ViolationKinds(importRC) ==
    { kind \in {"invalid-company-id", "missing-name", "missing-address",
                "missing-city", "missing-postal-code", "missing-country",
                "empty-inventory", "missing-product-id", "invalid-quantity"} :
        \/ kind = "invalid-company-id"
             /\ (importRC.id = Null \/ ~isValidRentalCompanyId(importRC.id))
        \/ kind = "missing-name" /\ importRC.name = ""
        \/ kind = "missing-address" /\ importRC.address = ""
        \/ kind = "missing-city" /\ importRC.city = ""
        \/ kind = "missing-postal-code" /\ importRC.postalCode = ""
        \/ kind = "missing-country" /\ importRC.country = ""
        \/ kind = "empty-inventory"
             /\ (~importRC.inventoryIsArray \/ importRC.inventory = <<>>)
        \/ /\ kind = "missing-product-id"
           /\ importRC.inventoryIsArray
           /\ \E k \in 1..Len(importRC.inventory) :
                 importRC.inventory[k].productId = Null
        \/ /\ kind = "invalid-quantity"
           /\ importRC.inventoryIsArray
           /\ \E k \in 1..Len(importRC.inventory) :
                 \/ importRC.inventory[k].quantityType # "number"
                 \/ importRC.inventory[k].quantity < 1 }

HasViolation(importData) ==
    \E k \in 1..Len(importData) : ViolationKinds(importData[k]) # {}

\* an inventory line whose product id is given but malformed
HasMalformedProductId(importData) ==
    \E k \in 1..Len(importData) :
        /\ importData[k].inventoryIsArray
        /\ \E n \in 1..Len(importData[k].inventory) :
              /\ importData[k].inventory[n].productId # Null
              /\ ~isValidProductFlexible(importData[k].inventory[n].productId)

(***************************************************************************)
(* C1: whenever an invocation of processImportData returns a               *)
(* missingManufacturers list, it has performed no persistence write: no    *)
(* updateRentalCompany call and no batched importData write.               *)
(***************************************************************************)
C1_NoWriteWhenMissing ==
    (Returned /\ result.hasMissing) => (UpdateCalls = {} /\ BatchCalls = {})

C3_MalformedProductIdAborts ==
    (req.kind \in {"new", "resume"} /\ HasMalformedProductId(req.data)) =>
        /\ calls = <<>>
        /\ Returned => (result.errors # <<>> /\ result.created = ZeroStats
                          /\ result.updated = ZeroStats)

(***************************************************************************)
(* C4: when an import is re-invoked with a `create` resolution carrying a  *)
(* name for every manufacturer previously reported missing, and no         *)
(* collaborator call fails (geocoding succeeds), the result reports no     *)
(* missing manufacturers and no errors, and the committed batch holds      *)
(* exactly one manufacturer per resolved id with the supplied name, one    *)
(* product per distinct previously unknown product id, and each new        *)
(* company with one inventory line per import line at the imported         *)
(* quantity.                                                               *)
(***************************************************************************)
ReportedMissing ==
    Ids(importSessions[req.sessionId].missingEntities)

AllCreatedByName ==
    /\ DOMAIN req.options.resolutions = ReportedMissing
    /\ \A m \in ReportedMissing :
         /\ req.options.resolutions[m].action = "create"
         /\ req.options.resolutions[m].name # Null

\* the product ids of the import that were not stored before it
UnknownProductIds ==
    UNION { { normalizeProductId(req.data[k].inventory[n].productId) :
                n \in 1..Len(req.data[k].inventory) } :
            k \in 1..Len(req.data) } \ DOMAIN StoredProducts

\* the inventory a record asks for: line by line
LineByLine(importRC) ==
    [n \in 1..Len(importRC.inventory) |->
        [productId |-> normalizeProductId(importRC.inventory[n].productId),
         quantity  |-> importRC.inventory[n].quantity]]

\* the batch b is what the resumed import was to commit
ExpectedBatch(b) ==
    /\ Ids(b.manufacturers) = ReportedMissing
    /\ Len(b.manufacturers) = Cardinality(ReportedMissing)
    /\ \A n \in 1..Len(b.manufacturers) :
         b.manufacturers[n].doc.name =
             req.options.resolutions[b.manufacturers[n].id].name
    /\ Ids(b.products) = UnknownProductIds
    /\ Len(b.products) = Cardinality(UnknownProductIds)
    /\ \A k \in 1..Len(req.data) :
         req.data[k].id \notin DOMAIN StoredCompanies =>
             \E n \in 1..Len(b.rentalCompanies) :
                 /\ b.rentalCompanies[n].id = req.data[k].id
                 /\ b.rentalCompanies[n].doc.inventory = LineByLine(req.data[k])

C4_ResumeWithCreateCommits ==
    (Returned /\ req.kind = "resume" /\ faults = 0 /\ AllCreatedByName) =>
        /\ ~result.hasMissing
        /\ result.errors = <<>>
        /\ Cardinality(BatchCalls) = 1
        /\ \A k \in BatchCalls : ExpectedBatch(calls[k])

(***************************************************************************)
(* C5: session lifecycle of POST /import.  A new import that reports       *)
(* missing manufacturers stores exactly one session, under a token never   *)
(* issued before, holding the request's data, format and options, and      *)
(* answers with the token and the missing-entity list; a stored session    *)
(* stays as it is until a resume naming it has been processed; the resume  *)
(* runs the import on the stored data and options with the resolutions of  *)
(* the request; once it is answered the session is gone; a resume naming   *)
(* a token that is not stored is answered 'Import session not found or     *)
(* expired' and runs no import.                                            *)
(***************************************************************************)
SessionStored ==
    \A t \in DOMAIN importSessions' \ DOMAIN importSessions :
        /\ pc = "respond" /\ req.kind = "new"
        /\ ~req.options.createMissingEntities
        /\ t = issued + 1 /\ issued' = t
        /\ DOMAIN importSessions' = DOMAIN importSessions \cup {t}
        /\ importSessions'[t].data = req.data
        /\ importSessions'[t].format = "json"
        /\ importSessions'[t].options = req.options
        /\ importSessions'[t].missingEntities = MissingEntities(result)
        /\ response'.status = 200
        /\ response'.importSessionId = t
        /\ response'.missingEntities = MissingEntities(result)

MissingAnswered ==
    (pc = "respond" /\ req.kind = "new" /\ result.hasMissing /\ pc' = "idle") =>
        Cardinality(DOMAIN importSessions' \ DOMAIN importSessions) = 1

SessionKept ==
    \A t \in DOMAIN importSessions :
        IF t \in DOMAIN importSessions'
        THEN importSessions'[t] = importSessions[t]
        ELSE pc = "respond" /\ req.kind = "resume" /\ req.sessionId = t

ResumeRuns ==
    (pc = "idle" /\ pc' = "validate" /\ req'.kind = "resume") =>
        /\ req'.sessionId \in DOMAIN importSessions
        /\ req'.data = importSessions[req'.sessionId].data
        /\ req'.options.createMissingEntities =
               importSessions[req'.sessionId].options.createMissingEntities
        /\ calls' = <<>>

ResumeConsumes ==
    (pc = "respond" /\ req.kind = "resume" /\ pc' = "idle") =>
        /\ req.sessionId \notin DOMAIN importSessions'
        /\ response' = ResultResponse

UnknownTokenRefused ==
    (pc = "idle" /\ req'.kind \in {"resume", "resume-unknown"}
       /\ req'.sessionId \notin DOMAIN importSessions) =>
        /\ response'.status = 404
        /\ response'.error = "Import session not found or expired"
        /\ pc' = "idle"
        /\ UNCHANGED <<db, importSessions, loc, calls, result>>

TokensNeverReissued ==
    /\ issued' >= issued
    /\ DOMAIN importSessions \subseteq 1..issued

C5_SessionStep ==
    /\ SessionStored
    /\ MissingAnswered
    /\ SessionKept
    /\ ResumeRuns
    /\ ResumeConsumes
    /\ UnknownTokenRefused
    /\ TokensNeverReissued

C5_SessionLifecycle == [][C5_SessionStep]_vars

\* a second resume with a token that has been consumed was answered 404
C5_Witness ==
    /\ pc = "idle"
    /\ req.kind = "resume-unknown"
    /\ req.sessionId \in 1..issued
    /\ response.status = 404
    /\ UpdateCalls \cup BatchCalls # {}

(***************************************************************************)
(* C6: every company inventory written by an import (create or update)     *)
(* has at most one line per product id, at the sum of the quantities of    *)
(* the company's import lines with that normalized product id.             *)
(***************************************************************************)
C6_OneLinePerProduct ==
    Returned =>
        /\ \A k \in UpdateCalls :
             MergedForSome(calls[k].id, calls[k].data.inventory)
        /\ \A k \in BatchCalls :
             \A n \in 1..Len(calls[k].rentalCompanies) :
                 MergedForSome(calls[k].rentalCompanies[n].id,
                               calls[k].rentalCompanies[n].doc.inventory)

(***************************************************************************)
(* C7: every product written by an import names, in manufacturerId, a      *)
(* manufacturer that existed before the import or is created in the same   *)
(* batch, for every resolutions map and createMissingEntities true or      *)
(* false.                                                                  *)
(***************************************************************************)
C7_ProductManufacturerExists ==
    Returned =>
        \A k \in BatchCalls :
            \A n \in 1..Len(calls[k].products) :
                calls[k].products[n].doc.manufacturerId
                    \in DOMAIN StoredManufacturers
                            \cup Ids(calls[k].manufacturers)

(***************************************************************************)
(* C8: for every product written by an import, the 3-digit prefix of the   *)
(* product id equals the product's manufacturerId, whatever resolution     *)
(* applies to that prefix.                                                 *)
(***************************************************************************)
C8_PrefixIsManufacturer ==
    Returned =>
        \A k \in BatchCalls :
            \A n \in 1..Len(calls[k].products) :
                SubSeq(calls[k].products[n].id, 1, 3) =
                    calls[k].products[n].doc.manufacturerId

(***************************************************************************)
(* C9: the missingManufacturers list one invocation returns holds each     *)
(* manufacturer id at most once.                                           *)
(***************************************************************************)
C9_MissingListedOnce ==
    (Returned /\ result.hasMissing) =>
        \A i, j \in 1..Len(result.missingManufacturers) :
            result.missingManufacturers[i].id =
                result.missingManufacturers[j].id => i = j

(***************************************************************************)
(* C10: for every inventory line whose derived manufacturer id has a       *)
(* `skip` resolution, the import creates no product for that line and      *)
(* emits no inventory line for it in any company; no manufacturer is       *)
(* created for a skipped id.                                               *)
(***************************************************************************)
SkippedIds ==
    { m \in DOMAIN req.options.resolutions :
        req.options.resolutions[m].action = "skip" }

\* the normalized product ids of the lines whose manufacturer is skipped
SkippedProductIds ==
    { p \in UNION { { normalizeProductId(req.data[k].inventory[n].productId) :
                        n \in 1..Len(req.data[k].inventory) } :
                    k \in 1..Len(req.data) } :
        extractManufacturerIdFromProductId(p) \in SkippedIds }

InventoryIds(inventory) ==
    { inventory[n].productId : n \in 1..Len(inventory) }

C10_SkipDropsLine ==
    Returned =>
        /\ \A k \in UpdateCalls :
             InventoryIds(calls[k].data.inventory) \cap SkippedProductIds = {}
        /\ \A k \in BatchCalls :
             /\ Ids(calls[k].products) \cap SkippedProductIds = {}
             /\ Ids(calls[k].manufacturers) \cap SkippedIds = {}
             /\ \A n \in 1..Len(calls[k].rentalCompanies) :
                  InventoryIds(calls[k].rentalCompanies[n].doc.inventory)
                      \cap SkippedProductIds = {}

(***************************************************************************)
(* C11: for every product id stored before an import starts, the import   *)
(* writes nothing to that product: the committed batch holds no entry      *)
(* with that id, and its stored name and manufacturerId are the same       *)
(* after the import, for every payload and resolutions map.                *)
(***************************************************************************)
C11_KnownProductsUntouched ==
    /\ \A p \in DOMAIN StoredProducts :
         /\ p \in DOMAIN dbProducts
         /\ dbProducts[p].name = StoredProducts[p].name
         /\ dbProducts[p].manufacturerId = StoredProducts[p].manufacturerId
    /\ \A k \in BatchCalls :
         Ids(calls[k].products) \cap DOMAIN StoredProducts = {}

(***************************************************************************)
(* The company loop of processImportData as a function of its inputs:      *)
(* the outcome for import data `data` when the geocoding of record         *)
(* `failing` answers `outcome` and every other call succeeds               *)
(* (failing = 0: every geocoding succeeds).                                *)
(***************************************************************************)
GeocodeOk == [throws |-> FALSE, latitude |-> 52, longitude |-> 13]

\* the locals after "Get existing data" and "Process any resolutions"
LocalsAtLoop(options) ==
    ApplyResolutions([NoLoc EXCEPT !.manufacturersMap = StoredManufacturers,
                                   !.productsMap = StoredProducts,
                                   !.rentalCompaniesMap = StoredCompanies],
                     ResolutionKeyOrder, options.resolutions)

\* "Create or update rental company (if no missing manufacturers)"
SettleCompany(run, after, importRC, coordinates) ==
    IF after.companyMissingManufacturers # <<>>
    THEN [run EXCEPT !.loc = after]
    ELSE IF importRC.id \in DOMAIN after.rentalCompaniesMap
    THEN [loc |-> [after EXCEPT !.updated.rentalCompanies = @ + 1],
          updates |-> Append(run.updates,
                        [op |-> "updateRentalCompany", id |-> importRC.id,
                         data |-> UpdatePatch(importRC, after.inventory)])]
    ELSE IF coordinates.throws
    THEN [run EXCEPT !.loc =
            [after EXCEPT !.errors =
                Append(@, Err("geocoding-failed", importRC.id))]]
    ELSE IF NullIsland(coordinates)
    THEN [run EXCEPT !.loc =
            [after EXCEPT !.errors =
                Append(@, Err("geocoding-invalid", importRC.id))]]
    ELSE [run EXCEPT !.loc =
            [after EXCEPT
               !.newRentalCompanies =
                   Append(@, Entry(importRC.id,
                       NewCompanyDoc(importRC, coordinates, after.inventory))),
               !.created.rentalCompanies = @ + 1]]

RECURSIVE RunCompanies(_, _, _, _, _, _)
RunCompanies(run, data, options, n, failing, outcome) ==
    IF n > Len(data) THEN run
    ELSE RunCompanies(
             SettleCompany(run, ItemsOf(run.loc, data[n], options), data[n],
                           IF n = failing THEN outcome ELSE GeocodeOk),
             data, options, n + 1, failing, outcome)

Outcome(data, options, failing, outcome) ==
    RunCompanies([loc |-> LocalsAtLoop(options), updates |-> <<>>],
                 data, options, 1, failing, outcome)

\* the sequence s without its element at position k
RemoveAt(s, k) == SubSeq(s, 1, k - 1) \o SubSeq(s, k + 1, Len(s))

IsUpdateCall(c) == c.op = "updateRentalCompany"

\* what the invocation at hand has done to companies
ObservedUpdates == SelectSeq(calls, IsUpdateCall)

GeocodeErrors ==
    { e \in 1..Len(loc.errors) :
        loc.errors[e].kind \in {"geocoding-failed", "geocoding-invalid"} }

\* the invocation ran to its end, one geocoding failed, nothing else did
OneGeocodingFailed ==
    /\ Returned
    /\ ~result.hasMissing
    /\ faults = 1
    /\ Cardinality(GeocodeErrors) = 1

\* the invocation is the run in which the geocoding of record k failed
FailedAt(k, outcome) ==
    /\ k \in 1..Len(req.data)
    /\ GeocodeFailed(outcome)
    /\ ObservedUpdates = Outcome(req.data, req.options, k, outcome).updates
    /\ loc.newRentalCompanies =
           Outcome(req.data, req.options, k, outcome).loc.newRentalCompanies
    /\ loc.errors = Outcome(req.data, req.options, k, outcome).loc.errors

\* the failing record is left out and named by an error
LeftOutAndNamed(k) ==
    /\ \E e \in GeocodeErrors : loc.errors[e].ref = req.data[k].id
    /\ \A b \in BatchCalls :
         calls[b].rentalCompanies = loc.newRentalCompanies
    /\ Len(loc.newRentalCompanies) =
           Len(Outcome(req.data, req.options, 0, GeocodeOk)
                   .loc.newRentalCompanies) - 1

\* the other companies are written as in the run over data without record k
OthersAsIfAbsent(k) ==
    /\ ObservedUpdates =
           Outcome(RemoveAt(req.data, k), req.options, 0, GeocodeOk).updates
    /\ loc.newRentalCompanies =
           Outcome(RemoveAt(req.data, k), req.options, 0, GeocodeOk)
               .loc.newRentalCompanies

\* the other companies are written as in the run in which record k's
\* geocoding succeeds: that run creates record k as well, and nothing else
\* differs
OthersAsIfSucceeded(k) ==
    /\ ObservedUpdates =
           Outcome(req.data, req.options, 0, GeocodeOk).updates
    /\ \E j \in 1..Len(Outcome(req.data, req.options, 0, GeocodeOk)
                          .loc.newRentalCompanies) :
         /\ Outcome(req.data, req.options, 0, GeocodeOk)
                .loc.newRentalCompanies[j].id = req.data[k].id
         /\ loc.newRentalCompanies =
                RemoveAt(Outcome(req.data, req.options, 0, GeocodeOk)
                             .loc.newRentalCompanies, j)

(***************************************************************************)
(* C12: when geocoding of a not-yet-known company fails (the geocoder      *)
(* throws or yields (0,0)), that company is left out of the committed      *)
(* batch and an error naming it is appended to the result; every other     *)
(* company of the batch is still created or updated as if the failing      *)
(* company were absent.                                                    *)
(***************************************************************************)
C12_GeocodingFailureIsPerRecord ==
    OneGeocodingFailed =>
        \E k \in 1..Len(req.data), outcome \in GeocodeOutcomes :
            /\ FailedAt(k, outcome)
            /\ LeftOutAndNamed(k)
            /\ OthersAsIfAbsent(k)

\* C12 as the code has it: the failing company is left out and named by an
\* error, and every other company is created or updated as in the run in
\* which that geocoding succeeds (manufacturers and products the failing
\* company's lines introduced stay known to the lines of later companies)
C12_GeocodingFailureOnlyDropsCompany ==
    OneGeocodingFailed =>
        \E k \in 1..Len(req.data), outcome \in GeocodeOutcomes :
            /\ FailedAt(k, outcome)
            /\ LeftOutAndNamed(k)
            /\ OthersAsIfSucceeded(k)

(***************************************************************************)
(* The admin modal: creating and editing one rental company by hand.       *)
(***************************************************************************)
\* what geocodeAddress can answer to the admin modal: parseFloat of the
\* first hit's lat and lon, or a throw
AdminGeocodeOutcomes ==
    GeocodeOutcomes \cup {[throws |-> FALSE, latitude |-> 0, longitude |-> 13]}

BareUrls == {"old.example", "new.example"}

SchemedUrls == {"https://" \o u : u \in BareUrls}

\* normalizeWebsiteUrl(url): prepend https:// unless a scheme is present
normalizeWebsiteUrl(url) ==
    IF url = "" THEN ""
    ELSE IF url \in SchemedUrls THEN url
    ELSE "https://" \o url

\* COUNTRY_CODE_MAP, the entries the forms below can hit
COUNTRY_CODE_MAP == ("Deutschland" :> "DE")

\* convertCountryToCode(country): the code of a known name, else the input
convertCountryToCode(country) ==
    IF country \in DOMAIN COUNTRY_CODE_MAP THEN COUNTRY_CODE_MAP[country]
    ELSE country

\* a || b on numbers: 0 is falsy
OrElse(a, b) == IF a # 0 THEN a ELSE b

\* createEmptyRentalCompany() with the fields the admin typed in
NewRentalCompanyForms ==
    [name : {"", "New Co"}, address : {"New St 1"}, city : {"", "Koeln"},
     postalCode : {"50667"}, country : {"DE"}, latitude : {0},
     longitude : {0}, website : {"", "new.example"}, isActive : BOOLEAN,
     inventory : {<<>>}]

NewRentalCompanyIds == {K_OLD, K_NEW, K_BAD}

\* the checks of handleCreateRentalCompany before its try block
CreateFormOk(newRentalCompanyId, newRentalCompany) ==
    /\ newRentalCompany.name # ""
    /\ newRentalCompanyId # <<>> /\ newRentalCompanyId[1] = "K"
    /\ newRentalCompany.address # ""
    /\ newRentalCompany.city # ""
    /\ newRentalCompany.postalCode # ""
    /\ newRentalCompany.country # ""
    /\ isValidRentalCompanyId(newRentalCompanyId)

\* handleCreateRentalCompany: geocode the form's address, then
\* createRentalCompany({id, ...newRentalCompany, latitude, longitude}),
\* which is a setDoc of the whole document
handleCreateRentalCompany(newRentalCompanyId, newRentalCompany, coordinates) ==
    /\ pc = "idle"
    /\ dbCompanies' =
         IF /\ CreateFormOk(newRentalCompanyId, newRentalCompany)
            /\ ~coordinates.throws
         THEN Put(dbCompanies, newRentalCompanyId,
                  [newRentalCompany EXCEPT
                     !.website = normalizeWebsiteUrl(@),
                     !.latitude = OrElse(coordinates.latitude, 0),
                     !.longitude = OrElse(coordinates.longitude, 0)])
         ELSE dbCompanies
    /\ UNCHANGED <<input, view, dbManufacturers, dbProducts, importSessions,
                   issued, pc, req, loc, calls, result, response, imports,
                   faults>>

\* startEditingRentalCompany(company) followed by the admin's edits
EditingRentalCompanyForms(company) ==
    { [company EXCEPT !.name = name, !.country = country,
                      !.isActive = isActive] :
        name \in {"", company.name, "Renamed"},
        country \in {company.country, "Deutschland"},
        isActive \in BOOLEAN }

\* the checks of saveEditedRentalCompany
EditFormOk(editingRentalCompany) ==
    /\ editingRentalCompany.name # ""
    /\ editingRentalCompany.address # ""
    /\ editingRentalCompany.city # ""
    /\ editingRentalCompany.postalCode # ""
    /\ editingRentalCompany.country # ""

\* the argument of updateRentalCompany in saveEditedRentalCompany
EditPatch(editingRentalCompany, coordinates) ==
    [name |-> editingRentalCompany.name,
     address |-> editingRentalCompany.address,
     city |-> editingRentalCompany.city,
     postalCode |-> editingRentalCompany.postalCode,
     country |-> IF Len(editingRentalCompany.country) > 2
                 THEN convertCountryToCode(editingRentalCompany.country)
                 ELSE editingRentalCompany.country,
     latitude |-> OrElse(coordinates.latitude,
                         editingRentalCompany.latitude),
     longitude |-> OrElse(coordinates.longitude,
                          editingRentalCompany.longitude),
     website |-> normalizeWebsiteUrl(editingRentalCompany.website),
     isActive |-> editingRentalCompany.isActive]

\* saveEditedRentalCompany: geocode the edited address, then updateDoc
saveEditedRentalCompany(id, editingRentalCompany, coordinates) ==
    /\ pc = "idle"
    /\ id \in DOMAIN dbCompanies
    /\ dbCompanies' =
         IF EditFormOk(editingRentalCompany) /\ ~coordinates.throws
         THEN [dbCompanies EXCEPT
                 ![id] = updateDoc(@, EditPatch(editingRentalCompany,
                                                coordinates))]
         ELSE dbCompanies
    /\ UNCHANGED <<input, view, dbManufacturers, dbProducts, importSessions,
                   issued, pc, req, loc, calls, result, response, imports,
                   faults>>

(***************************************************************************)
(* C13: no rental company is ever persisted with latitude = 0 and          *)
(* longitude = 0: on every path that derives coordinates by geocoding      *)
(* (import create, admin create, admin edit) a (0,0) geocode is treated as *)
(* a failure and nothing is written with those coordinates.                *)
(***************************************************************************)
C13_NeverNullIsland ==
    \A id \in DOMAIN dbCompanies : ~NullIsland(dbCompanies[id])

\* the company ids the running import found in the store
KnownCompanyIds == DOMAIN loc.rentalCompaniesMap \cap DOMAIN dbCompanies

\* this step is the import's update of company id, and the update succeeded
UpdateStepOf(id) ==
    /\ pc = "company"
    /\ loc.i <= Len(req.data)
    /\ req.data[loc.i].id = id
    /\ Len(calls') = Len(calls) + 1
    /\ calls'[Len(calls')].op = "updateRentalCompany"
    /\ calls'[Len(calls')].id = id
    /\ loc'.updated.rentalCompanies = loc.updated.rentalCompanies + 1

\* the stored document after the update: same fields, the inventory is the
\* one just computed, and every other field keeps its stored value unless
\* the import record gives a non-empty value, which it may then take
PatchedInPlace(before, after, importRC, inventory) ==
    /\ DOMAIN after = DOMAIN before
    /\ after.inventory = inventory
    /\ \A f \in DOMAIN before \ {"inventory"} :
         \/ after[f] = before[f]
         \/ /\ f \in DOMAIN importRC
            /\ importRC[f] # ""
            /\ after[f] = importRC[f]

C14_UpdateStep ==
    \A id \in KnownCompanyIds :
        /\ dbCompanies'[id] # dbCompanies[id] => UpdateStepOf(id)
        /\ UpdateStepOf(id) =>
             /\ PatchedInPlace(dbCompanies[id], dbCompanies'[id],
                               req.data[loc.i], loc'.inventory)
             /\ dbCompanies'[id].name = dbCompanies[id].name
             /\ dbCompanies'[id].latitude = dbCompanies[id].latitude
             /\ dbCompanies'[id].longitude = dbCompanies[id].longitude
             /\ dbCompanies'[id].isActive = dbCompanies[id].isActive

(***************************************************************************)
(* C14: for a company id already known to the import, the import issues an *)
(* in-place update that replaces the inventory with the newly computed     *)
(* lines and carries each other field only when the import record supplies *)
(* a non-empty value for it; no stored field of that company (including    *)
(* name, coordinates and isActive) is cleared or overwritten because the   *)
(* import omitted it.                                                      *)
(***************************************************************************)
C14_UpdateInPlace == [][C14_UpdateStep]_vars

\* the stored company was updated by an import that gave another address
\* and no website: the inventory and the address are the import's, the
\* website is still the stored one
C14_Witness ==
    /\ UpdateCalls # {}
    /\ K_OLD \in DOMAIN dbCompanies
    /\ dbCompanies[K_OLD].inventory # StoredCompany.inventory
    /\ dbCompanies[K_OLD].address = "Main St 1"
    /\ dbCompanies[K_OLD].website = StoredCompany.website
    /\ \E k \in UpdateCalls :
         /\ calls[k].id = K_OLD
         /\ "website" \notin DOMAIN calls[k].data

\* the import's batch commit or one of its company updates was rejected
WriteFailed ==
    \E k \in 1..Len(result.errors) :
        result.errors[k] \in {Err("import-failed", Null),
                              Err("update-failed", Null)}

\* the store is as the import found it: the catalogue is the stored one and
\* every company document is the one the import read at its start
NoWriteRemains ==
    /\ dbManufacturers = StoredManufacturers
    /\ dbProducts = StoredProducts
    /\ DOMAIN dbCompanies = DOMAIN loc.rentalCompaniesMap
    /\ \A id \in DOMAIN dbCompanies :
         dbCompanies[id] = loc.rentalCompaniesMap[id]

(***************************************************************************)
(* C15: if a persistence write fails during an import (the batched write   *)
(* of new entities, or an in-place company update), the import result has  *)
(* success = false with an error string wrapping the failure, and no write *)
(* of that import remains persisted: none of its new manufacturers,        *)
(* products or companies and none of its company updates.                  *)
(***************************************************************************)
C15_FailedWriteLeavesNothing ==
    (Returned /\ WriteFailed) =>
        /\ ~result.success
        /\ NoWriteRemains

(***************************************************************************)
(* rentalStore: the client-side stores, the search filters and the views   *)
(* derived from them.                                                      *)
(***************************************************************************)
\* the server side, which the store functions leave alone
server == <<input, importSessions, issued, pc, req, loc, calls, result,
            response, imports, faults>>

\* Array.prototype.includes
Includes(list, x) == \E k \in 1..Len(list) : list[k] = x

\* list.filter((id) => id !== x)
Without(list, x) == SelectSeq(list, LAMBDA y : y # x)

\* String.prototype.toLowerCase
toLowerCase(s) == [k \in 1..Len(s) |-> Lower(s[k])]

\* String.prototype.includes
StringIncludes(s, t) ==
    \E k \in 0..(Len(s) - Len(t)) : SubSeq(s, k + 1, k + Len(t)) = t

\* ids.join(',')
RECURSIVE Join(_)
Join(ids) ==
    IF ids = <<>> THEN <<>>
    ELSE IF Len(ids) = 1 THEN ids[1]
    ELSE ids[1] \o <<",">> \o Join(Tail(ids))

\* s.split(',').filter(Boolean), current being the piece read so far
RECURSIVE Split(_, _)
Split(s, current) ==
    IF s = <<>> THEN (IF current = <<>> THEN <<>> ELSE <<current>>)
    ELSE IF Head(s) = ","
    THEN (IF current = <<>> THEN <<>> ELSE <<current>>)
         \o Split(Tail(s), <<>>)
    ELSE Split(Tail(s), Append(current, Head(s)))

\* a faulty variant of the URL update: the products parameter is dropped
updateURLWithoutProducts(filters) ==
    [q |-> filters.text, manufacturers |-> Join(filters.manufacturers),
     products |-> <<>>]

\* updateURLFromFilters: q, manufacturers and products are deleted and set
\* again when not empty (an absent parameter reads as the empty string)
updateURLFromFilters(filters) ==
    [q |-> filters.text, manufacturers |-> Join(filters.manufacturers),
     products |-> Join(filters.products)]

loadFiltersFromURL(u) ==
    [text |-> u.q, manufacturers |-> Split(u.manufacturers, <<>>),
     products |-> Split(u.products, <<>>)]

\* the products whose id is productId; the lookup maps keep the last one
ProductIndex(products, productId) ==
    { k \in 1..Len(products) : products[k].id = productId }

Last(ks) == CHOOSE k \in ks : \A j \in ks : j <= k

\* productsMap[productId].manufacturerId, Null when there is no such product
ManufacturerIdOf(products, productId) ==
    IF ProductIndex(products, productId) = {} THEN Null
    ELSE products[Last(ProductIndex(products, productId))].manufacturerId

\* manufacturersMap[manufacturerId]?.name || ''
ManufacturerNameOf(manufacturers, manufacturerId) ==
    IF \E k \in 1..Len(manufacturers) : manufacturers[k].id = manufacturerId
    THEN manufacturers[Last({ k \in 1..Len(manufacturers) :
                                manufacturers[k].id = manufacturerId })].name
    ELSE <<>>

\* getCompanyManufacturerIds(company): the manufacturers of the known
\* products of the inventory
getCompanyManufacturerIds(company, products) ==
    { ManufacturerIdOf(products, company.inventory[k].productId) :
        k \in { j \in 1..Len(company.inventory) :
                  ProductIndex(products, company.inventory[j].productId) # {} } }

\* the part of the searchable text one inventory line adds
LineText(item, products, manufacturers) ==
    IF ProductIndex(products, item.productId) = {} THEN <<>>
    ELSE toLowerCase(
           <<" ">> \o products[Last(ProductIndex(products, item.productId))].name
           \o <<" ">>
           \o ManufacturerNameOf(manufacturers,
                                 ManufacturerIdOf(products, item.productId)))

RECURSIVE LinesText(_, _, _)
LinesText(inventory, products, manufacturers) ==
    IF inventory = <<>> THEN <<>>
    ELSE LineText(Head(inventory), products, manufacturers)
         \o LinesText(Tail(inventory), products, manufacturers)

\* createSearchableText(company)
createSearchableText(company, products, manufacturers) ==
    toLowerCase(company.name \o <<" ">> \o company.city \o <<" ">>
                \o company.address)
    \o LinesText(company.inventory, products, manufacturers)

\* a faulty variant of the filter callback: the text is compared as typed
PassesFiltersAsTyped(company, filters, products, manufacturers) ==
    /\ filters.text # <<>> =>
         StringIncludes(createSearchableText(company, products, manufacturers),
                        filters.text)
    /\ Len(filters.manufacturers) > 0 =>
         \E k \in 1..Len(filters.manufacturers) :
            filters.manufacturers[k]
                \in getCompanyManufacturerIds(company, products)
    /\ Len(filters.products) > 0 =>
         \E k \in 1..Len(filters.products) :
            \E j \in 1..Len(company.inventory) :
               company.inventory[j].productId = filters.products[k]

\* the callback of $rentalCompanies.filter in filteredRentalCompanies
PassesFilters(company, filters, products, manufacturers) ==
    /\ filters.text # <<>> =>
         StringIncludes(createSearchableText(company, products, manufacturers),
                        toLowerCase(filters.text))
    /\ Len(filters.manufacturers) > 0 =>
         \E k \in 1..Len(filters.manufacturers) :
            filters.manufacturers[k]
                \in getCompanyManufacturerIds(company, products)
    /\ Len(filters.products) > 0 =>
         \E k \in 1..Len(filters.products) :
            \E j \in 1..Len(company.inventory) :
               company.inventory[j].productId = filters.products[k]

\* inventory.reduce((sum, item) => sum + item.quantity, 0) over the lines ks
RECURSIVE Quantity(_, _)
Quantity(inventory, ks) ==
    IF ks = {} THEN 0
    ELSE inventory[Last(ks)].quantity + Quantity(inventory, ks \ {Last(ks)})

\* getMatchingInventoryCount(company, filters)
getMatchingInventoryCount(company, filters, products) ==
    Quantity(company.inventory,
        IF Len(filters.manufacturers) = 0 /\ Len(filters.products) = 0
        THEN DOMAIN company.inventory
        ELSE IF Len(filters.products) > 0
        THEN { k \in DOMAIN company.inventory :
                 Includes(filters.products, company.inventory[k].productId) }
        ELSE { k \in DOMAIN company.inventory :
                 /\ ProductIndex(products, company.inventory[k].productId) # {}
                 /\ Includes(filters.manufacturers,
                             ManufacturerIdOf(products,
                                 company.inventory[k].productId)) })

\* one step of the stable sort by descending count: company goes behind
\* every company of the sorted list whose count is not smaller
InsertByCount(sorted, company, filters, products) ==
    SelectSeq(sorted, LAMBDA c :
        getMatchingInventoryCount(c, filters, products)
            >= getMatchingInventoryCount(company, filters, products))
    \o <<company>>
    \o SelectSeq(sorted, LAMBDA c :
        getMatchingInventoryCount(c, filters, products)
            < getMatchingInventoryCount(company, filters, products))

\* [...filtered].sort((a, b) => countB - countA)
RECURSIVE SortByCount(_, _, _)
SortByCount(filtered, filters, products) ==
    IF filtered = <<>> THEN <<>>
    ELSE InsertByCount(
           SortByCount(SubSeq(filtered, 1, Len(filtered) - 1), filters,
                       products),
           filtered[Len(filtered)], filters, products)

\* the derived store filteredRentalCompanies as a function of its inputs
FilterCompanies(companies, filters, loading, products, manufacturers) ==
    IF loading THEN <<>>
    ELSE SortByCount(
           SelectSeq(companies, LAMBDA company :
               PassesFilters(company, filters, products, manufacturers)),
           filters, products)

filteredRentalCompanies ==
    FilterCompanies(rentalCompaniesStore, searchFilters, isLoading,
                    productsStore, manufacturersStore)

\* a faulty variant of the filter callback: a deselect prunes the products
\* as a select does instead of clearing them
ToggledToPruned(filters, manufacturerId, manufacturers, productsArray) ==
    [filters EXCEPT
       !.manufacturers = manufacturers,
       !.products =
           IF Len(manufacturers) > 0
           THEN SelectSeq(filters.products, LAMBDA productId :
                  \E k \in 1..Len(productsArray) :
                     /\ Includes(manufacturers,
                                 productsArray[k].manufacturerId)
                     /\ productsArray[k].id = productId)
           ELSE filters.products]

\* a faulty variant of the filter callback: a select leaves the products
ToggledToUnpruned(filters, manufacturerId, manufacturers, productsArray) ==
    IF /\ Includes(filters.manufacturers, manufacturerId)
       /\ ~Includes(manufacturers, manufacturerId)
    THEN [filters EXCEPT !.manufacturers = manufacturers, !.products = <<>>]
    ELSE [filters EXCEPT !.manufacturers = manufacturers]

\* the filter callback of toggleManufacturerFilter, manufacturers being the
\* toggled list
ToggledTo(filters, manufacturerId, manufacturers, productsArray) ==
    IF /\ Includes(filters.manufacturers, manufacturerId)
       /\ ~Includes(manufacturers, manufacturerId)
    THEN [filters EXCEPT !.manufacturers = manufacturers, !.products = <<>>]
    ELSE [filters EXCEPT
            !.manufacturers = manufacturers,
            !.products =
                IF Len(manufacturers) > 0
                THEN SelectSeq(filters.products, LAMBDA productId :
                       \E k \in 1..Len(productsArray) :
                          /\ Includes(manufacturers,
                                      productsArray[k].manufacturerId)
                          /\ productsArray[k].id = productId)
                ELSE filters.products]

\* filters.manufacturers with manufacturerId removed or appended
Toggle(list, id) ==
    IF Includes(list, id) THEN Without(list, id) ELSE Append(list, id)

ToggleManufacturer(filters, manufacturerId, productsArray) ==
    ToggledTo(filters, manufacturerId,
              Toggle(filters.manufacturers, manufacturerId), productsArray)

Event(op, arg) == [op |-> op, arg |-> arg, before |-> searchFilters]

setTextFilter(text) ==
    /\ searchFilters' = [searchFilters EXCEPT !.text = text]
    /\ location' = updateURLFromFilters(searchFilters')
    /\ lastEvent' = Event("setTextFilter", text)
    /\ UNCHANGED <<server, db, manufacturersStore, productsStore,
                   rentalCompaniesStore, isLoading, error>>

toggleManufacturerFilter(manufacturerId) ==
    /\ searchFilters' =
         ToggleManufacturer(searchFilters, manufacturerId, productsStore)
    /\ location' = updateURLFromFilters(searchFilters')
    /\ lastEvent' = Event("toggleManufacturerFilter", manufacturerId)
    /\ UNCHANGED <<server, db, manufacturersStore, productsStore,
                   rentalCompaniesStore, isLoading, error>>

toggleProductFilter(productId) ==
    /\ searchFilters' =
         [searchFilters EXCEPT !.products = Toggle(@, productId)]
    /\ location' = updateURLFromFilters(searchFilters')
    /\ lastEvent' = Event("toggleProductFilter", productId)
    /\ UNCHANGED <<server, db, manufacturersStore, productsStore,
                   rentalCompaniesStore, isLoading, error>>

resetFilters ==
    /\ searchFilters' = EmptyFilters
    /\ location' = updateURLFromFilters(EmptyFilters)
    /\ lastEvent' = Event("resetFilters", <<>>)
    /\ UNCHANGED <<server, db, manufacturersStore, productsStore,
                   rentalCompaniesStore, isLoading, error>>

\* snapshot.docs.map(doc => ({id: doc.id, ...doc.data()})) of the documents
\* a query yields, in the order ids
Docs(collection, ids, includeInactive) ==
    SelectSeq([k \in 1..Len(ids) |-> [id |-> ids[k]] @@ collection[ids[k]]],
              LAMBDA d : includeInactive \/ d.isActive)

\* error.set(err.message): the store holds null or the message
Message(text) == <<text>>

\* a failed load that also empties the three stores
loadInitialDataClearing(forceRefresh, manufacturerIds, productIds, companyIds, failed) ==
    /\ isLoading' = FALSE
    /\ lastEvent' = [op |-> "loadInitialData", arg |-> <<>>,
                     before |-> searchFilters]
    /\ IF failed
       THEN /\ error' = Message("load-failed")
            /\ manufacturersStore' = <<>>
            /\ productsStore' = <<>>
            /\ rentalCompaniesStore' = <<>>
            /\ UNCHANGED searchFilters
       ELSE /\ error' = Null
            /\ manufacturersStore' = Docs(dbManufacturers, manufacturerIds, forceRefresh)
            /\ productsStore' = Docs(dbProducts, productIds, forceRefresh)
            /\ rentalCompaniesStore' = Docs(dbCompanies, companyIds, FALSE)
            /\ searchFilters' = loadFiltersFromURL(location)
    /\ UNCHANGED <<server, db, location>>

\* loadInitialData(forceRefresh): the three reads, then the stores are set
\* and the filters are taken from the URL; a rejected read sets error
loadInitialData(forceRefresh, manufacturerIds, productIds, companyIds, failed) ==
    /\ isLoading' = FALSE
    /\ lastEvent' = Event("loadInitialData", <<>>)
    /\ IF failed
       THEN /\ error' = Message("load-failed")
            /\ UNCHANGED <<manufacturersStore, productsStore,
                           rentalCompaniesStore, searchFilters>>
       ELSE /\ error' = Null
            /\ manufacturersStore' =
                   Docs(dbManufacturers, manufacturerIds, forceRefresh)
            /\ productsStore' = Docs(dbProducts, productIds, forceRefresh)
            /\ rentalCompaniesStore' = Docs(dbCompanies, companyIds, FALSE)
            /\ searchFilters' = loadFiltersFromURL(location)
    /\ UNCHANGED <<server, db, location>>

(***************************************************************************)
(* The catalogue the map page is opened on.                                *)
(***************************************************************************)
\* an inactive product of manufacturer 559
P_OFF == <<"5", "5", "9", "-", "2", "0", "0", "0", "-", "1">>

K_THIRD == <<"K", "3", "0", "0", "3">>
K_OFF == <<"K", "4", "0", "0", "4">>

ViewCompany(name, city, address, isActive, inventory) ==
    [name |-> name, address |-> address, city |-> city, postalCode |-> "",
     country |-> "DE", latitude |-> 50, longitude |-> 7, website |-> "",
     isActive |-> isActive, inventory |-> inventory]

Line(productId, quantity) == [productId |-> productId, quantity |-> quantity]

ViewManufacturers ==
    (M_OLD :> ManufacturerDoc(NameAB)) @@ (M_NEW :> ManufacturerDoc(NameGG))

ViewProducts ==
    (P_OLD :> ProductDoc(NameMX, M_OLD))
    @@ (P_NEW :> ProductDoc(NameProduct, M_NEW))
    @@ (P_OFF :> [ProductDoc(NameMX, M_NEW) EXCEPT !.isActive = FALSE])

ViewCompanies ==
    (K_OLD :> ViewCompany(<<"M", "a", "x">>, <<"B", "o", "n", "n">>,
                          <<"A", " ", "1">>, TRUE,
                          <<Line(P_OLD, 1), Line(P_NEW, 2)>>))
    @@ (K_NEW :> ViewCompany(<<"G", "a", "b">>, <<"U", "l", "m">>,
                             <<"B", " ", "2">>, TRUE, <<Line(P_OLD, 2)>>))
    @@ (K_THIRD :> ViewCompany(<<"X", "o">>, <<"B", "o", "n", "n">>,
                               <<"M", " ", "3">>, TRUE, <<Line(P_OFF, 2)>>))
    @@ (K_OFF :> ViewCompany(<<"M", "o">>, <<"U", "l", "m">>,
                             <<"G", " ", "4">>, FALSE, <<Line(P_OLD, 2)>>))

\* the orders in which the company query can list its documents
CompanyOrders ==
    { <<K_OLD, K_NEW, K_THIRD, K_OFF>>, <<K_NEW, K_OLD, K_THIRD, K_OFF>>,
      <<K_THIRD, K_OFF, K_NEW, K_OLD>> }

\* the search texts typed in: upper case, across two fields, a
\* manufacturer's name, and none
Texts == { <<"M", "A">>, <<"x", " ", "b">>, <<"g", "g">>, <<>> }

\* the URLs the page is opened with
OpenedUrls ==
    { NoUrl,
      [NoUrl EXCEPT !.manufacturers = M_OLD, !.products = P_NEW],
      [NoUrl EXCEPT !.q = <<"B", "O">>,
                    !.products = P_OLD \o <<",", ",">> \o P_OFF] }

StoreInit ==
    /\ payload = <<>>
    /\ NoCsv
    /\ NoOverlap
    /\ dbManufacturers = ViewManufacturers
    /\ dbProducts = ViewProducts
    /\ dbCompanies = ViewCompanies
    /\ importSessions = [t \in {} |-> NoSession]
    /\ issued = 0
    /\ pc = "idle"
    /\ req = NoRequest
    /\ loc = NoLoc
    /\ calls = <<>>
    /\ result = NoResult
    /\ response = NoResponse
    /\ imports = 0
    /\ faults = 0
    /\ ViewInit
    /\ location \in OpenedUrls

StoreNext ==
    \/ \E forceRefresh \in BOOLEAN, companyIds \in CompanyOrders,
          failed \in BOOLEAN :
         loadInitialData(forceRefresh, <<M_OLD, M_NEW>>,
                         <<P_OLD, P_NEW, P_OFF>>, companyIds, failed)
    \/ \E text \in Texts : setTextFilter(text)
    \/ \E manufacturerId \in {M_OLD, M_NEW} :
         toggleManufacturerFilter(manufacturerId)
    \/ \E productId \in {P_OLD, P_NEW, P_OFF} : toggleProductFilter(productId)
    \/ resetFilters

StoreSpec == StoreInit /\ [][StoreNext]_vars

(***************************************************************************)
(* rentalStore: the admin's catalogue actions.                             *)
(***************************************************************************)
\* deleteDoc(docRef)
Remove(collection, id) ==
    [k \in DOMAIN collection \ {id} |-> collection[k]]

\* firestoreService.getProducts(manufacturerId, includeInactive): the ids of
\* the documents the query yields
getProducts(manufacturerId, includeInactive) ==
    { p \in DOMAIN dbProducts :
        /\ dbProducts[p].manufacturerId = manufacturerId
        /\ includeInactive \/ dbProducts[p].isActive }

\* deleteManufacturer(id): firestoreService.deleteManufacturer throws when
\* getProducts(id) yields a product, else the document and the store item go
deleteManufacturer(id) ==
    /\ IF getProducts(id, FALSE) # {}
       THEN /\ error' = Message("has-products")
            /\ UNCHANGED <<dbManufacturers, manufacturersStore>>
       ELSE /\ dbManufacturers' = Remove(dbManufacturers, id)
            /\ manufacturersStore' =
                   SelectSeq(manufacturersStore, LAMBDA item : item.id # id)
            /\ UNCHANGED error
    /\ UNCHANGED <<server, dbProducts, dbCompanies, productsStore,
                   rentalCompaniesStore, isLoading, searchFilters, location,
                   lastEvent>>

\* toggleProductStatus(id, isActive): updateDoc rejects a missing document
toggleProductStatus(id, isActive) ==
    /\ IF id \in DOMAIN dbProducts
       THEN /\ dbProducts' = [dbProducts EXCEPT ![id].isActive = isActive]
            /\ productsStore' =
                   [k \in 1..Len(productsStore) |->
                      IF productsStore[k].id = id
                      THEN [productsStore[k] EXCEPT !.isActive = isActive]
                      ELSE productsStore[k]]
            /\ UNCHANGED error
       ELSE /\ error' = Message("update-failed")
            /\ UNCHANGED <<dbProducts, productsStore>>
    /\ UNCHANGED <<server, dbManufacturers, dbCompanies, manufacturersStore,
                   rentalCompaniesStore, isLoading, searchFilters, location,
                   lastEvent>>

\* deleteProduct(id): no check of the companies that stock the product
deleteProduct(id) ==
    /\ dbProducts' = Remove(dbProducts, id)
    /\ productsStore' =
           SelectSeq(productsStore, LAMBDA item : item.id # id)
    /\ UNCHANGED <<server, dbManufacturers, dbCompanies, manufacturersStore,
                   rentalCompaniesStore, isLoading, error, searchFilters,
                   location, lastEvent>>

AdminInit ==
    /\ payload = <<>>
    /\ NoCsv
    /\ NoOverlap
    /\ ViewInit
    /\ location = NoUrl
    /\ dbManufacturers = StoredManufacturers
    /\ dbProducts = StoredProducts
    /\ dbCompanies = StoredCompanies
    /\ importSessions = [t \in {} |-> NoSession]
    /\ issued = 0
    /\ pc = "idle"
    /\ req = NoRequest
    /\ loc = NoLoc
    /\ calls = <<>>
    /\ result = NoResult
    /\ response = NoResponse
    /\ imports = 0
    /\ faults = 0

AdminNext ==
    \/ \E newRentalCompanyId \in NewRentalCompanyIds,
          newRentalCompany \in NewRentalCompanyForms,
          coordinates \in AdminGeocodeOutcomes :
         handleCreateRentalCompany(newRentalCompanyId, newRentalCompany,
                                   coordinates)
    \/ \E id \in DOMAIN dbCompanies, coordinates \in AdminGeocodeOutcomes :
         \E editingRentalCompany \in EditingRentalCompanyForms(dbCompanies[id]) :
           saveEditedRentalCompany(id, editingRentalCompany, coordinates)
    \/ \E id \in {M_OLD} : deleteManufacturer(id)
    \/ \E id \in {P_OLD}, isActive \in BOOLEAN :
         toggleProductStatus(id, isActive)
    \/ \E id \in {P_OLD} : deleteProduct(id)

AdminSpec == AdminInit /\ [][AdminNext]_vars

(***************************************************************************)
(* Properties of the search filters.                                       *)
(***************************************************************************)
\* the last store call was toggleManufacturerFilter(m)
Toggled(m) ==
    /\ lastEvent.op = "toggleManufacturerFilter"
    /\ lastEvent.arg = m

\* the product of the store with this id belongs to manufacturer m
BelongsTo(productId, m) ==
    \E k \in 1..Len(productsStore) :
        /\ productsStore[k].id = productId
        /\ productsStore[k].manufacturerId = m

SelectedManufacturers(filters) ==
    { filters.manufacturers[k] : k \in 1..Len(filters.manufacturers) }

SelectedProducts(filters) ==
    { filters.products[k] : k \in 1..Len(filters.products) }

(***************************************************************************)
(* C16: after toggleManufacturerFilter(m) is applied to a filter state in  *)
(* which m is selected, m is no longer selected and no selected product id *)
(* belongs to manufacturer m; if m was the only selected manufacturer, the *)
(* product filter set is empty; the text filter is unchanged.              *)
(***************************************************************************)
C16_DeselectDropsProducts ==
    \A m \in {M_OLD, M_NEW} :
        (Toggled(m) /\ m \in SelectedManufacturers(lastEvent.before)) =>
            /\ m \notin SelectedManufacturers(searchFilters)
            /\ \A p \in SelectedProducts(searchFilters) : ~BelongsTo(p, m)
            /\ SelectedManufacturers(lastEvent.before) = {m} =>
                 SelectedProducts(searchFilters) = {}
            /\ searchFilters.text = lastEvent.before.text

\* m was deselected while another manufacturer, a product of m, a product
\* of the other manufacturer and a text were selected
C16_Witness ==
    \E m \in {M_OLD, M_NEW} :
        /\ Toggled(m)
        /\ ~isLoading
        /\ m \in SelectedManufacturers(lastEvent.before)
        /\ SelectedManufacturers(lastEvent.before) # {m}
        /\ \E p \in SelectedProducts(lastEvent.before) : BelongsTo(p, m)
        /\ \E p \in SelectedProducts(lastEvent.before) : ~BelongsTo(p, m)
        /\ lastEvent.before.text # <<>>

\* m was deselected while it was the only manufacturer selected and a
\* product was selected
C16_WitnessLast ==
    \E m \in {M_OLD, M_NEW} :
        /\ Toggled(m)
        /\ SelectedManufacturers(lastEvent.before) = {m}
        /\ SelectedProducts(lastEvent.before) # {}

(***************************************************************************)
(* C17: after toggleManufacturerFilter(m) is applied to a filter state in  *)
(* which m is not selected, m is selected and the product filter set is    *)
(* exactly the previously selected product ids whose product belongs to    *)
(* one of the now-selected manufacturers (no id added, every still-valid   *)
(* id kept).                                                               *)
(***************************************************************************)
C17_SelectPrunesProducts ==
    \A m \in {M_OLD, M_NEW} :
        (Toggled(m) /\ m \notin SelectedManufacturers(lastEvent.before)) =>
            /\ m \in SelectedManufacturers(searchFilters)
            /\ searchFilters.products =
                 SelectSeq(lastEvent.before.products, LAMBDA p :
                     \E n \in SelectedManufacturers(searchFilters) :
                         BelongsTo(p, n))

\* m was selected while a product of a selected manufacturer and a product
\* of no selected manufacturer were selected: one is kept, one is dropped
C17_Witness ==
    \E m \in {M_OLD, M_NEW} :
        /\ Toggled(m)
        /\ ~isLoading
        /\ m \notin SelectedManufacturers(lastEvent.before)
        /\ SelectedProducts(searchFilters) # {}
        /\ SelectedProducts(searchFilters)
             # SelectedProducts(lastEvent.before)

(***************************************************************************)
(* C18: from any reachable filter state in which manufacturer m is not     *)
(* selected, toggling m on and then immediately off leaves the product     *)
(* filter set equal to its value before the first toggle; if a product of  *)
(* m was selected while m was active, that product is dropped by the       *)
(* deselect and is not restored by selecting m again.                      *)
(***************************************************************************)
C18_OnOffRestoresProducts ==
    \A m \in {M_OLD, M_NEW} :
        m \notin SelectedManufacturers(searchFilters) =>
            /\ SelectedProducts(
                 ToggleManufacturer(
                   ToggleManufacturer(searchFilters, m, productsStore),
                   m, productsStore))
               = SelectedProducts(searchFilters)
            /\ (Toggled(m) /\ m \in SelectedManufacturers(lastEvent.before)) =>
                 \A p \in SelectedProducts(lastEvent.before) :
                     BelongsTo(p, m) =>
                        /\ p \notin SelectedProducts(searchFilters)
                        /\ p \notin SelectedProducts(
                             ToggleManufacturer(searchFilters, m,
                                                productsStore))

\* the second half of C18 alone
C18_DroppedStaysDropped ==
    \A m \in {M_OLD, M_NEW} :
        (Toggled(m) /\ m \in SelectedManufacturers(lastEvent.before)) =>
            \A p \in SelectedProducts(lastEvent.before) :
                BelongsTo(p, m) =>
                   /\ p \notin SelectedProducts(searchFilters)
                   /\ p \notin SelectedProducts(
                        ToggleManufacturer(searchFilters, m, productsStore))

(***************************************************************************)
(* C19: when data is loaded, filteredRentalCompanies contains exactly the  *)
(* stored companies that satisfy every active filter dimension: the        *)
(* lower-cased text is a substring of the text made of the company's name, *)
(* city, address and the product and manufacturer names of its inventory;  *)
(* if manufacturers is non-empty, at least one inventory line's product    *)
(* belongs to a selected manufacturer; if products is non-empty, at least  *)
(* one inventory line's productId is selected.  With all filters empty     *)
(* every stored company is returned.                                       *)
(***************************************************************************)
TextMatches(company) ==
    StringIncludes(
        createSearchableText(company, productsStore, manufacturersStore),
        toLowerCase(searchFilters.text))

ManufacturerMatches(company) ==
    \E j \in 1..Len(company.inventory) :
        \E m \in SelectedManufacturers(searchFilters) :
            BelongsTo(company.inventory[j].productId, m)

ProductMatches(company) ==
    \E j \in 1..Len(company.inventory) :
        company.inventory[j].productId \in SelectedProducts(searchFilters)

Satisfying ==
    { k \in 1..Len(rentalCompaniesStore) :
        /\ searchFilters.text = <<>> \/ TextMatches(rentalCompaniesStore[k])
        /\ searchFilters.manufacturers = <<>>
             \/ ManufacturerMatches(rentalCompaniesStore[k])
        /\ searchFilters.products = <<>>
             \/ ProductMatches(rentalCompaniesStore[k]) }

Listed(list) == { list[k] : k \in 1..Len(list) }

C19_ExactlyTheMatching ==
    ~isLoading =>
        /\ Listed(filteredRentalCompanies)
             = { rentalCompaniesStore[k] : k \in Satisfying }
        /\ Len(filteredRentalCompanies) = Cardinality(Satisfying)
        /\ searchFilters = EmptyFilters =>
             Listed(filteredRentalCompanies) = Listed(rentalCompaniesStore)

\* loaded, all three filters active, typed in upper case, and some but not
\* all stored companies are listed
C19_Witness ==
    /\ ~isLoading
    /\ rentalCompaniesStore # <<>>
    /\ searchFilters.text = <<"M", "A">>
    /\ searchFilters.manufacturers # <<>>
    /\ searchFilters.products # <<>>
    /\ filteredRentalCompanies # <<>>
    /\ Len(filteredRentalCompanies) < Len(rentalCompaniesStore)

(***************************************************************************)
(* C20: the list returned by filteredRentalCompanies is ordered by         *)
(* non-increasing matching quantity, where a company's matching quantity   *)
(* is the sum of the quantities of its inventory lines that match the      *)
(* active manufacturer and product filters (all of its lines when neither  *)
(* filter is active); companies with no matching line come last.           *)
(***************************************************************************)
LineMatches(item) ==
    /\ searchFilters.manufacturers = <<>>
         \/ \E m \in SelectedManufacturers(searchFilters) :
               BelongsTo(item.productId, m)
    /\ searchFilters.products = <<>>
         \/ item.productId \in SelectedProducts(searchFilters)

MatchingQuantity(company) ==
    Quantity(company.inventory,
             { k \in 1..Len(company.inventory) :
                 LineMatches(company.inventory[k]) })

C20_OrderedByMatchingQuantity ==
    \A i, j \in 1..Len(filteredRentalCompanies) :
        i < j => MatchingQuantity(filteredRentalCompanies[i])
                    >= MatchingQuantity(filteredRentalCompanies[j])

\* every selected product is a product of a selected manufacturer when a
\* manufacturer is selected
ProductsWithinManufacturers ==
    searchFilters.manufacturers # <<>> =>
        \A p \in SelectedProducts(searchFilters) :
            \E m \in SelectedManufacturers(searchFilters) : BelongsTo(p, m)

\* the store functions that change the search filters
FilterOps ==
    {"setTextFilter", "toggleManufacturerFilter", "toggleProductFilter",
     "resetFilters"}

(***************************************************************************)
(* C21: after each of setTextFilter, toggleManufacturerFilter,             *)
(* toggleProductFilter and resetFilters, the URL query string mirrors the  *)
(* new filter state: q equals the text (absent when empty), manufacturers  *)
(* and products are the comma-joined id lists (absent when empty), and     *)
(* loadFiltersFromURL applied to that URL yields the same filter state.    *)
(***************************************************************************)
C21_UrlMirrorsFilters ==
    lastEvent.op \in FilterOps =>
        /\ location.q = searchFilters.text
        /\ location.manufacturers = Join(searchFilters.manufacturers)
        /\ location.products = Join(searchFilters.products)
        /\ searchFilters.manufacturers = <<>> => location.manufacturers = <<>>
        /\ searchFilters.products = <<>> => location.products = <<>>
        /\ loadFiltersFromURL(location) = searchFilters

\* a filter function has just run and left a text, two manufacturers and
\* two products selected, so both lists are written with a comma
C21_Witness ==
    /\ lastEvent.op \in FilterOps
    /\ searchFilters.text # <<>>
    /\ Len(searchFilters.manufacturers) = 2
    /\ Len(searchFilters.products) = 2
    /\ \E k \in 1..Len(location.products) : location.products[k] = ","

\* some stored product, active or not, has this manufacturerId
Referenced(id) ==
    \E p \in DOMAIN dbProducts : dbProducts[p].manufacturerId = id

C22_DeleteStep ==
    \A id \in {M_OLD} :
        deleteManufacturer(id) =>
            /\ Referenced(id) =>
                 /\ error' # Null
                 /\ dbManufacturers' = dbManufacturers
            /\ (id \in DOMAIN dbManufacturers
                  /\ id \notin DOMAIN dbManufacturers') => ~Referenced(id)

(***************************************************************************)
(* C22: deleteManufacturer(id) fails with an error and leaves the          *)
(* manufacturer stored whenever any stored product (active or inactive)    *)
(* has manufacturerId = id; the manufacturer is deleted only when no       *)
(* product references it.                                                  *)
(***************************************************************************)
C22_ReferencedManufacturerStays == [][C22_DeleteStep]_vars

\* the manufacturer is gone while a stored product still names it
C22_Orphaned ==
    /\ M_OLD \notin DOMAIN dbManufacturers
    /\ Referenced(M_OLD)

C23_LoadStep ==
    \A forceRefresh \in BOOLEAN, companyIds \in CompanyOrders,
       failed \in BOOLEAN :
        loadInitialData(forceRefresh, <<M_OLD, M_NEW>>,
                        <<P_OLD, P_NEW, P_OFF>>, companyIds, failed) =>
            /\ isLoading' = FALSE
            /\ failed =>
                 /\ error' = Message("load-failed")
                 /\ manufacturersStore' = manufacturersStore
                 /\ productsStore' = productsStore
                 /\ rentalCompaniesStore' = rentalCompaniesStore
                 /\ searchFilters' = searchFilters
            /\ ~failed =>
                 /\ error' = Null
                 /\ manufacturersStore' =
                      Docs(dbManufacturers, <<M_OLD, M_NEW>>, forceRefresh)
                 /\ productsStore' =
                      Docs(dbProducts, <<P_OLD, P_NEW, P_OFF>>, forceRefresh)
                 /\ rentalCompaniesStore' =
                      Docs(dbCompanies, companyIds, FALSE)

(***************************************************************************)
(* C23: loadInitialData always finishes with isLoading = false; on success *)
(* the three stores equal the fetched lists and error is null; if a fetch  *)
(* rejects, error holds the failure message and the three catalogue stores *)
(* and the search filters keep the values they had before the call.        *)
(***************************************************************************)
C23_LoadFinishes == [][C23_LoadStep]_vars

\* a load failed after an earlier one filled the stores and filters were set
C23_Witness ==
    /\ lastEvent.op = "loadInitialData"
    /\ error = Message("load-failed")
    /\ ~isLoading
    /\ Len(manufacturersStore) > 0
    /\ Len(productsStore) > 0
    /\ Len(rentalCompaniesStore) > 0
    /\ searchFilters.manufacturers # <<>>
    /\ lastEvent.before = searchFilters

(***************************************************************************)
(* importService.parseCSV                                                  *)
(***************************************************************************)
MaxCsvLines == 3

\* s.split(sep), current being the piece read so far
RECURSIVE SplitOn(_, _, _)
SplitOn(s, sep, current) ==
    IF s = <<>> THEN <<current>>
    ELSE IF Head(s) = sep THEN <<current>> \o SplitOn(Tail(s), sep, <<>>)
    ELSE SplitOn(Tail(s), sep, Append(current, Head(s)))

\* pieces.map((piece) => piece.trim())
TrimAll(pieces) == [k \in 1..Len(pieces) |-> Trim(pieces[k])]

\* csvString.split('\n').map((line) => line.trim()).filter(Boolean)
CsvLines(csv) ==
    SelectSeq(TrimAll(SplitOn(csv, "\n", <<>>)), LAMBDA line : line # <<>>)

\* line.split(',').map((part) => part.trim())
Parts(line) == TrimAll(SplitOn(line, ",", <<>>))

DigitValue ==
    [c \in Digits |->
        CASE c = "0" -> 0 [] c = "1" -> 1 [] c = "2" -> 2 [] c = "3" -> 3
          [] c = "4" -> 4 [] c = "5" -> 5 [] c = "6" -> 6 [] c = "7" -> 7
          [] c = "8" -> 8 [] c = "9" -> 9]

\* the digits a string starts with
RECURSIVE LeadingDigits(_)
LeadingDigits(s) ==
    IF s = <<>> \/ ~IsDigit(Head(s)) THEN <<>>
    ELSE <<Head(s)>> \o LeadingDigits(Tail(s))

RECURSIVE Decimal(_)
Decimal(ds) ==
    IF ds = <<>> THEN 0
    ELSE 10 * Decimal(SubSeq(ds, 1, Len(ds) - 1)) + DigitValue[ds[Len(ds)]]

NaN == [isNaN |-> TRUE, value |-> 0]
Number(n) == [isNaN |-> FALSE, value |-> n]

\* the digits after the sign: none gives NaN, what follows them is ignored
parseDigits(negative, body) ==
    IF LeadingDigits(body) = <<>> THEN NaN
    ELSE Number(IF negative THEN 0 - Decimal(LeadingDigits(body))
                ELSE Decimal(LeadingDigits(body)))

\* parseInt(str, 10) of a trimmed string
parseInt(str) ==
    IF str # <<>> /\ Head(str) \in {"-", "+"}
    THEN parseDigits(Head(str) = "-", Tail(str))
    ELSE parseDigits(FALSE, str)

\* parts[k] of a destructuring: missing parts read as undefined
At(parts, k) == IF k <= Len(parts) THEN parts[k] ELSE Null

\* parts[0].startsWith('K') && parts.length >= 7
IsCompanyLine(parts) ==
    /\ parts[1] # <<>>
    /\ parts[1][1] = "K"
    /\ Len(parts) >= 7

\* the record a company line starts; line is the line that started it
CompanyOf(parts, n) ==
    [id |-> parts[1], name |-> parts[2], address |-> parts[3],
     city |-> parts[4], country |-> parts[5], postalCode |-> parts[6],
     website |-> parts[7], phone |-> At(parts, 8), email |-> At(parts, 9),
     inventory |-> <<>>, line |-> n]

\* rentalCompanies[id] = currentCompany: an object keeps its keys in the
\* order they were first set
SetKey(map, id, ref) ==
    IF \E k \in 1..Len(map) : map[k].id = id
    THEN [k \in 1..Len(map) |->
            IF map[k].id = id THEN [id |-> id, ref |-> ref] ELSE map[k]]
    ELSE Append(map, [id |-> id, ref |-> ref])

\* currentCompany.inventory.push(...) when the quantity is a number above 0
pushItem(st, parts, n, quantity) ==
    IF ~quantity.isNaN /\ quantity.value > 0
    THEN [st EXCEPT !.started[st.currentCompany].inventory =
            Append(@, [productId |-> parts[1], productName |-> parts[2],
                       manufacturerName |-> parts[3],
                       quantity |-> quantity.value, line |-> n])]
    ELSE st

\* the body of the loop over the lines; started holds every record created,
\* currentCompany and the map refer to records by their place in it
parseLine(st, parts, n) ==
    IF IsCompanyLine(parts)
    THEN [started |-> Append(st.started, CompanyOf(parts, n)),
          rentalCompanies |->
             SetKey(st.rentalCompanies, parts[1], Len(st.started) + 1),
          currentCompany |-> Len(st.started) + 1]
    ELSE IF st.currentCompany # 0 /\ Len(parts) >= 4
    THEN pushItem(st, parts, n, parseInt(parts[4]))
    ELSE st

RECURSIVE parseFrom(_, _, _)
parseFrom(lines, n, st) ==
    IF n > Len(lines) THEN st
    ELSE parseFrom(lines, n + 1, parseLine(st, Parts(lines[n]), n))

\* return Object.values(rentalCompanies)
ObjectValues(st) ==
    [status |-> "returned", started |-> st.started,
     values |-> [k \in 1..Len(st.rentalCompanies) |->
                   st.started[st.rentalCompanies[k].ref]]]

parseCSV(csv) ==
    ObjectValues(parseFrom(CsvLines(csv), 1,
                           [started |-> <<>>, rentalCompanies |-> <<>>,
                            currentCompany |-> 0]))

\* the caller hands the text to parseCSV
ParseCSV ==
    /\ parsed.status = "none"
    /\ parsed' = parseCSV(csvString)
    /\ UNCHANGED <<payload, csvString, overlapping, view, db, importSessions,
                   issued, pc, req, loc, calls, result, response, imports,
                   faults>>

Csv(parts) == Join(parts)

CompanyLine(id) ==
    Csv(<<id, NameAB, NameMX, <<" ">> \o NameGG, NameAB, <<"1">>, <<>>>>)

ProductLine(quantityStr) == Csv(<<P_OLD, NameMX, NameAB, quantityStr>>)

QuantityStrs ==
    {<<"2">>, <<"0">>, <<"-", "1">>, <<"2", ".", "5">>, <<"x">>}

CsvLineChoices ==
    {CompanyLine(K_OLD), CompanyLine(K_NEW),
     Csv(<<K_OLD, NameAB, NameMX, NameGG>>),
     Csv(<<P_NEW, NameMX, NameAB>>),
     <<" ">>}
    \cup { ProductLine(q) : q \in QuantityStrs }

RECURSIVE JoinLines(_)
JoinLines(lines) ==
    IF lines = <<>> THEN <<>>
    ELSE IF Len(lines) = 1 THEN lines[1]
    ELSE lines[1] \o <<"\n">> \o JoinLines(Tail(lines))

CsvTexts ==
    { JoinLines(lines) :
        lines \in UNION { [1..n -> CsvLineChoices] : n \in 0..MaxCsvLines } }

CsvInit ==
    /\ payload = <<>>
    /\ csvString \in CsvTexts
    /\ parsed = NotParsed
    /\ NoOverlap
    /\ dbManufacturers = StoredManufacturers
    /\ dbProducts = StoredProducts
    /\ dbCompanies = StoredCompanies
    /\ importSessions = [t \in {} |-> NoSession]
    /\ issued = 0
    /\ pc = "idle"
    /\ req = NoRequest
    /\ loc = NoLoc
    /\ calls = <<>>
    /\ result = NoResult
    /\ response = NoResponse
    /\ imports = 0
    /\ faults = 0
    /\ ViewInit
    /\ location = NoUrl

CsvNext == ParseCSV

CsvSpec == CsvInit /\ [][CsvNext]_vars

\* the claim's reading of the lines of the text
LineParts(n) == Parts(CsvLines(csvString)[n])

LineCount == Len(CsvLines(csvString))

CompanyLinesBefore(n) == { j \in 1..(n - 1) : IsCompanyLine(LineParts(j)) }

\* a whole number above zero, written in digits
PositiveInteger(s) ==
    /\ s # <<>>
    /\ \A k \in 1..Len(s) : IsDigit(s[k])
    /\ Decimal(s) > 0

\* the records that hold an inventory item read from line n
HoldersOf(n) ==
    { r \in 1..Len(parsed.started) :
        \E k \in 1..Len(parsed.started[r].inventory) :
            parsed.started[r].inventory[k].line = n }

\* the record that line n started
StartedAt(n) ==
    { r \in 1..Len(parsed.started) : parsed.started[r].line = n }

ProductLineAccepted(n) ==
    /\ ~IsCompanyLine(LineParts(n))
    /\ Len(LineParts(n)) >= 4
    /\ PositiveInteger(LineParts(n)[4])
    /\ CompanyLinesBefore(n) # {}

C24_AttachedToLatestCompany ==
    parsed.status = "returned" =>
        \A n \in 1..LineCount :
            ProductLineAccepted(n) =>
                HoldersOf(n) = StartedAt(Last(CompanyLinesBefore(n)))

C24_OrphanLineDropped ==
    parsed.status = "returned" =>
        \A n \in 1..LineCount :
            (~IsCompanyLine(LineParts(n)) /\ CompanyLinesBefore(n) = {})
                => HoldersOf(n) = {}

C24_MalformedLineDropped ==
    parsed.status = "returned" =>
        \A n \in 1..LineCount :
            (/\ ~IsCompanyLine(LineParts(n))
             /\ \/ Len(LineParts(n)) < 4
                \/ ~PositiveInteger(LineParts(n)[4]))
                => HoldersOf(n) = {}

C24_AlwaysReturns == parsed.status \in {"none", "returned"}

(***************************************************************************)
(* C24: parseCSV attaches every accepted product line to the most recently *)
(* started company record that precedes it and to no other; a product line *)
(* before any company line is dropped; a line with fewer than 4 fields or  *)
(* a non-positive or non-integer quantity is dropped; parseCSV never       *)
(* throws.                                                                 *)
(***************************************************************************)
C24_ProductLinesFollowCompany ==
    /\ C24_AttachedToLatestCompany
    /\ C24_OrphanLineDropped
    /\ C24_MalformedLineDropped
    /\ C24_AlwaysReturns

\* every started record is returned
C24_NoRecordLost ==
    parsed.status = "returned" => Len(parsed.values) = Len(parsed.started)

\* the Validate step has run on the records of the request
Validated == pc \notin {"idle", "validate"}

\* the Validate step reported the company id
IdRejected(id) ==
    \E k \in 1..Len(result.errors) :
        result.errors[k] = Err("invalid-company-id", id)

(***************************************************************************)
(* C25: the import's Validate step accepts a company id exactly when       *)
(* isValidRentalCompanyId accepts it: K followed by four or more digits,   *)
(* with no upper bound, is accepted and everything else is rejected.       *)
(***************************************************************************)
C25_ValidateAgreesWithCodec ==
    Validated =>
        \A k \in 1..Len(req.data) :
            ~IdRejected(req.data[k].id)
                <=> isValidRentalCompanyId(req.data[k].id)

\* the two checks agree on ids of up to six digits
C25_AgreeUpToSixDigits ==
    Validated =>
        \A k \in 1..Len(req.data) :
            Len(req.data[k].id) <= 1 + MaxCompanyDigits =>
                (~IdRejected(req.data[k].id)
                    <=> isValidRentalCompanyId(req.data[k].id))

(***************************************************************************)
(* Two invocations of processImportData that overlap: each awaits its      *)
(* three reads and its commit, and the other may run in between.           *)
(***************************************************************************)
Invocations == {1, 2}

\* the state of the route that serves one request at a time
serving == <<importSessions, issued, pc, req, loc, calls, result, response,
             imports, faults>>

NoRun == [loc |-> NoLoc, updates |-> <<>>]

\* a request naming the manufacturer of its line, by the line itself with
\* createMissingEntities or by a resolution
OverlapLine(productId, manufacturerName) ==
    [productId |-> productId, productName |-> NameProduct,
     manufacturerName |-> manufacturerName, quantity |-> 1,
     quantityType |-> "number"]

OverlapRequests ==
    { [data |-> <<ImportCompany(K_NEW, <<OverlapLine(P_NEW, name)>>)>>,
       options |-> [createMissingEntities |-> TRUE,
                    resolutions |-> NoResolutions]] :
        name \in {NameGG, NameMX} }
    \cup
    { [data |-> <<ImportCompany(K_NEW, <<OverlapLine(P_NEW, Null)>>)>>,
       options |-> [createMissingEntities |-> FALSE,
                    resolutions |->
                        (M_NEW :> Resolution("create", name, Null))]] :
        name \in {NameGG, NameMX} }
    \cup
    { [data |-> <<ImportCompany(K_OLD, <<OverlapLine(P_OLD, NameAB)>>)>>,
       options |-> [createMissingEntities |-> FALSE,
                    resolutions |-> NoResolutions]] }

NewInvocation(request) ==
    [stage |-> "start", data |-> request.data, options |-> request.options,
     manufacturers |-> EmptyMap, products |-> EmptyMap,
     rentalCompanies |-> EmptyMap, run |-> NoRun]

\* const existingManufacturers = await firestoreService.getManufacturers(true)
getExistingManufacturers(i) ==
    /\ invocations[i].stage = "start"
    /\ invocations' = [invocations EXCEPT
                         ![i].stage = "manufacturers",
                         ![i].manufacturers = dbManufacturers]
    /\ UNCHANGED <<payload, csvString, parsed, commitOrder, view, db, serving>>

\* const existingProducts = await firestoreService.getProducts(undefined, true)
getExistingProducts(i) ==
    /\ invocations[i].stage = "manufacturers"
    /\ invocations' = [invocations EXCEPT
                         ![i].stage = "products",
                         ![i].products = dbProducts]
    /\ UNCHANGED <<payload, csvString, parsed, commitOrder, view, db, serving>>

\* const existingRentalCompanies = await firestoreService.getRentalCompanies({})
getExistingRentalCompanies(i) ==
    /\ invocations[i].stage = "products"
    /\ invocations' = [invocations EXCEPT
                         ![i].stage = "rentalCompanies",
                         ![i].rentalCompanies = ActiveCompanies]
    /\ UNCHANGED <<payload, csvString, parsed, commitOrder, view, db, serving>>

\* the locals after "Get existing data" and "Process any resolutions"
LocalsAfterRead(invocation) ==
    ApplyResolutions(
        [NoLoc EXCEPT !.manufacturersMap = invocation.manufacturers,
                      !.productsMap = invocation.products,
                      !.rentalCompaniesMap = invocation.rentalCompanies],
        ResolutionKeyOrder, invocation.options.resolutions)

\* await updateRentalCompany(id, {...}) for every update of the loop
RECURSIVE ApplyUpdates(_, _)
ApplyUpdates(collection, updates) ==
    IF updates = <<>> THEN collection
    ELSE ApplyUpdates(
             IF Head(updates).id \in DOMAIN collection
             THEN Put(collection, Head(updates).id,
                      updateDoc(collection[Head(updates).id],
                                Head(updates).data))
             ELSE collection,
             Tail(updates))

\* the company loop: what it adds to the batch, and its updates in place
Batched(i, run) ==
    /\ invocations' = [invocations EXCEPT
          ![i].run = run,
          ![i].stage =
              IF /\ run.loc.missingManufacturers # <<>>
                 /\ ~invocations[i].options.createMissingEntities
              THEN "returned" ELSE "batched"]
    /\ dbCompanies' = ApplyUpdates(dbCompanies, run.updates)

processCompanies(i) ==
    /\ invocations[i].stage = "rentalCompanies"
    /\ Batched(i, RunCompanies(
                      [loc |-> LocalsAfterRead(invocations[i]),
                       updates |-> <<>>],
                      invocations[i].data, invocations[i].options, 1, 0,
                      GeocodeOk))
    /\ UNCHANGED <<payload, csvString, parsed, commitOrder, view,
                   dbManufacturers, dbProducts, serving>>

\* await firestoreService.importData({...}): batch.set of every entry, then
\* batch.commit()
commitBatch(i) ==
    /\ invocations[i].stage = "batched"
    /\ invocations' = [invocations EXCEPT ![i].stage = "committed"]
    /\ commitOrder' = Append(commitOrder, i)
    /\ dbManufacturers' =
           batchSet(dbManufacturers, invocations[i].run.loc.newManufacturers)
    /\ dbProducts' = batchSet(dbProducts, invocations[i].run.loc.newProducts)
    /\ dbCompanies' =
           batchSet(dbCompanies, invocations[i].run.loc.newRentalCompanies)
    /\ UNCHANGED <<payload, csvString, parsed, view, serving>>

OverlapInit ==
    /\ payload = <<>>
    /\ NoCsv
    /\ invocations \in [Invocations -> { NewInvocation(request) :
                                           request \in OverlapRequests }]
    /\ commitOrder = <<>>
    /\ dbManufacturers = StoredManufacturers
    /\ dbProducts = StoredProducts
    /\ dbCompanies = StoredCompanies
    /\ importSessions = [t \in {} |-> NoSession]
    /\ issued = 0
    /\ pc = "idle"
    /\ req = NoRequest
    /\ loc = NoLoc
    /\ calls = <<>>
    /\ result = NoResult
    /\ response = NoResponse
    /\ imports = 0
    /\ faults = 0
    /\ ViewInit
    /\ location = NoUrl

OverlapNext ==
    \E i \in Invocations :
        \/ getExistingManufacturers(i)
        \/ getExistingProducts(i)
        \/ getExistingRentalCompanies(i)
        \/ processCompanies(i)
        \/ commitBatch(i)

OverlapSpec == OverlapInit /\ [][OverlapNext]_vars

\* the invocation read the manufacturers and did not find the id
UnknownTo(i, id) ==
    /\ invocations[i].stage \notin {"start"}
    /\ id \notin DOMAIN invocations[i].manufacturers

\* the request of the invocation refers to the manufacturer
RefersTo(i, id) ==
    \E k \in 1..Len(invocations[i].data) :
        \E j \in 1..Len(invocations[i].data[k].inventory) :
            extractManufacturerIdFromProductId(
                normalizeProductId(
                    invocations[i].data[k].inventory[j].productId)) = id

\* the creates for the id in the invocation's batch
CreatesOf(i, id) ==
    SelectSeq(invocations[i].run.loc.newManufacturers,
              LAMBDA entry : entry.id = id)

HasBatch(i) == invocations[i].stage \in {"batched", "committed"}

\* both invocations refer to the id and neither found it stored
Racing(id) ==
    \A i \in Invocations : RefersTo(i, id) /\ UnknownTo(i, id)

FilterInit ==
    /\ StoreInit
    /\ location = NoUrl

FilterSpec == FilterInit /\ [][StoreNext]_vars

(***************************************************************************)
(* C27: in every filter state reachable from the empty filters by the four *)
(* filter functions, if the manufacturer filter is not empty then every    *)
(* selected product id is the id of a product whose manufacturerId is in   *)
(* the manufacturer filter.                                                *)
(***************************************************************************)
C27_SelectedProductsBelong ==
    searchFilters.manufacturers # <<>> =>
        \A k \in 1..Len(searchFilters.products) :
            \E m \in SelectedManufacturers(searchFilters) :
                BelongsTo(searchFilters.products[k], m)

\* the same, once the catalogue is loaded
C27_BelongWhenLoaded ==
    Len(productsStore) > 0 => C27_SelectedProductsBelong

\* the response tells the client that manufacturers still need resolution
AsksForResolution(r) == r.hasMissing \/ ReportsMissing(r.errors)

\* the handler sends its response
Responds == pc = "respond" /\ pc' = "idle"

C28_RespondStep ==
    (Responds /\ AsksForResolution(response')) =>
        response'.importSessionId \in DOMAIN importSessions'

(***************************************************************************)
(* C28: every POST /import response that reports manufacturers still       *)
(* needing resolution carries an importSessionId of a session stored at    *)
(* that moment, so the import can always be resumed again; this includes   *)
(* the response to a resume request whose resolutions leave a manufacturer *)
(* unresolved.                                                             *)
(***************************************************************************)
C28_ResumableWhenUnresolved == [][C28_RespondStep]_vars

\* the same for the responses to new-import requests only
C28_NewImportResumable ==
    [][req.kind = "new" => C28_RespondStep]_vars

(***************************************************************************)
(* The import route over a store that holds a deactivated company.         *)
(***************************************************************************)
DeactivatedCompanies ==
    (K_OLD :> [StoredCompany EXCEPT !.isActive = FALSE])
    @@ (K_NEW :> StoredCompany)

DeactivatedInit ==
    /\ payload \in Payloads
    /\ NoCsv
    /\ NoOverlap
    /\ ViewInit
    /\ location = NoUrl
    /\ dbManufacturers = StoredManufacturers
    /\ dbProducts = StoredProducts
    /\ dbCompanies = DeactivatedCompanies
    /\ importSessions = [t \in {} |-> NoSession]
    /\ issued = 0
    /\ pc = "idle"
    /\ req = NoRequest
    /\ loc = NoLoc
    /\ calls = <<>>
    /\ result = NoResult
    /\ response = NoResponse
    /\ imports = 0
    /\ faults = 0

DeactivatedSpec == DeactivatedInit /\ [][Next]_vars

\* the step hands a batch to importData that sets the company's document
BatchSets(id) ==
    \E k \in (Len(calls) + 1)..Len(calls') :
        /\ calls'[k].op = "importData"
        /\ \E e \in 1..Len(calls'[k].rentalCompanies) :
              calls'[k].rentalCompanies[e].id = id

C29_StoredStep ==
    \A id \in DOMAIN dbCompanies :
        /\ ~BatchSets(id)
        /\ id \in DOMAIN dbCompanies'
        /\ dbCompanies'[id].isActive = dbCompanies[id].isActive
        /\ dbCompanies'[id].latitude = dbCompanies[id].latitude
        /\ dbCompanies'[id].longitude = dbCompanies[id].longitude

(***************************************************************************)
(* C29: an import never replaces a stored company document wholesale: for  *)
(* every company id present in the store when the import starts, active or *)
(* inactive, the import treats the id as known and issues an update in     *)
(* place rather than a batched create, so the stored isActive and          *)
(* coordinates survive.                                                    *)
(***************************************************************************)
C29_StoredCompanyNeverReplaced == [][C29_StoredStep]_vars

\* the same for the stored companies that are active
C29_ActiveNeverReplaced ==
    [][\A id \in DOMAIN dbCompanies :
          dbCompanies[id].isActive =>
              /\ ~BatchSets(id)
              /\ id \in DOMAIN dbCompanies'
              /\ dbCompanies'[id].isActive
              /\ dbCompanies'[id].latitude = dbCompanies[id].latitude
              /\ dbCompanies'[id].longitude = dbCompanies[id].longitude]_vars

(***************************************************************************)
(* C30: every company an import creates or updates is written with a       *)
(* non-empty inventory: for every payload that passed validation and every *)
(* resolutions map, no company is created or updated with zero inventory   *)
(* lines.                                                                  *)
(***************************************************************************)
C30_WrittenInventoryNotEmpty ==
    \A id \in DOMAIN dbCompanies : Len(dbCompanies[id].inventory) > 0

====
